---- MODULE Spec2Model ----
(***************************************************************************)
(* Model of the bokat.se scraping clients of bokat_se_hass:                *)
(*   - BokatApiClient (custom_components/bokat_se/__init__.py),            *)
(*   - BokatAPI of the library (custom_components/bokat_se_lib/bokatapi.py)*)
(*   - BokatAPI of the integration (custom_components/bokat_se/bokatapi.py)*)
(*                                                                         *)
(* Text is a sequence of word tokens, so that Python's substring test      *)
(* ("Kommer" in status_text) is a contiguous-subsequence test here.        *)
(* A response body is the set of marker phrases it contains together with  *)
(* the structure (rows, links) the parsers read.                           *)
(***************************************************************************)
EXTENDS Integers, Sequences, FiniteSets, TLC

VARIABLES
    api,        \* the class the client is an instance of
    pc,         \* "idle": no call in progress; "done": a call has ended
    cookies,    \* self._cookies: "none" (None), "empty", "set"
    call,       \* the operation last called, with its arguments
    ret,        \* its outcome: a returned value or a raised exception
    log,        \* what that operation did on the network, in order
    coord       \* BokatDataUpdateCoordinator: its mode ("off": the client is
                \* used without it), its activity_url, the outcome the host got

vars == <<api, pc, cookies, call, ret, log, coord>>

\* BokatApiClient of bokat_se/__init__.py, BokatAPI of bokat_se_lib/bokatapi.py,
\* BokatAPI of bokat_se/bokatapi.py
HaClient == "BokatApiClient"
LibApi == "bokat_se_lib.BokatAPI"
OldApi == "bokat_se.BokatAPI"

----------------------------------------------------------------------------
(* Bounds of the model *)

\* longest roster (detail page rows) drawn
MaxRows == 2

\* largest number printed in a page's summary line
MaxCount == 1

\* most activity blocks, and most detail links, on a listing page
MaxBlocks == 2
MaxLinks == 3

\* longest page body (rows) a client operation is answered with
MaxClientRows == 1

\* most guests a reply is called with
MaxGuests == 2
\* rows of the table headed "Aktiviteter" of a user page
MaxTableRows == 2

----------------------------------------------------------------------------
(* Text helpers *)

\* Python: needle in text
Contains(text, needle) ==
    \E i \in 1..(Len(text) - Len(needle) + 1) :
        SubSeq(text, i, i + Len(needle) - 1) = needle

Min(S) == CHOOSE x \in S : \A y \in S : x <= y

\* the sequences over S of length 0..n
SeqUpTo(S, n) == UNION {[1..k -> S] : k \in 0..n}

\* Python: str.lower() on the words the header test looks at
Lower(text) ==
    [i \in 1..Len(text) |->
        CASE text[i] = "Namn" -> "namn"
          [] text[i] = "Name" -> "name"
          [] text[i] = "Status" -> "status"
          [] OTHER -> text[i]]

\* re.search(r'\+\s*(\d+)', status_text): the first "+<digits>" token
GuestMatch(text) ==
    LET S == {i \in 1..Len(text) : text[i] \in {"+1", "+2"}}
    IN  IF S = {} THEN 0
        ELSE IF text[Min(S)] = "+1" THEN 1 ELSE 2

\* https://www.bokat.se/ is put before an href that is not absolute
SiteUrl(href) == <<"https://www.bokat.se/", href>>

----------------------------------------------------------------------------
(* Detail pages (stat.jsp) as BokatApiClient reads them *)

Cell(text, plain) == [text |-> text, plain |-> plain]

\* sample roster rows: a row is its cells; a cell is its text, and whether
\* the text is the cell's only content (no nested tags)
RowYes == <<Cell(<<"Anna">>, TRUE), Cell(<<"Kommer">>, TRUE),
            Cell(<<>>, TRUE), Cell(<<"12:00">>, TRUE)>>
RowYesGuests == <<Cell(<<"Dan">>, TRUE), Cell(<<"Kommer", "+2">>, TRUE),
                  Cell(<<>>, TRUE), Cell(<<>>, TRUE)>>
RowNo == <<Cell(<<"Bo">>, TRUE), Cell(<<"Kommer", "inte">>, TRUE),
           Cell(<<>>, TRUE), Cell(<<>>, TRUE)>>
RowCommentOnly == <<Cell(<<"Eva">>, TRUE), Cell(<<"Endast", "kommentar">>, TRUE),
                    Cell(<<"Hej">>, TRUE)>>
RowBlankComment == <<Cell(<<"Cia">>, TRUE), Cell(<<>>, TRUE),
                     Cell(<<"Hej">>, TRUE), Cell(<<>>, TRUE)>>
RowHeader == <<Cell(<<"Namn">>, TRUE), Cell(<<"Status">>, TRUE),
               Cell(<<"Kommentar">>, TRUE), Cell(<<"Tid">>, TRUE)>>
RowMarkupNo == <<Cell(<<"Gus">>, FALSE), Cell(<<"Kommer", "inte">>, FALSE),
                 Cell(<<"Hej">>, TRUE)>>
RowMarkupNone == <<Cell(<<"Hal">>, FALSE), Cell(<<"-">>, FALSE),
                   Cell(<<>>, TRUE), Cell(<<>>, TRUE)>>

RosterRows == {RowYes, RowYesGuests, RowNo, RowCommentOnly, RowBlankComment,
               RowHeader, RowMarkupNo, RowMarkupNone}

\* what heads the page: an <h1> (plain text or with nested tags), or only a
\* <title> ("Bokat.se - <name>" or bare), or neither
Heads == {"h1_plain", "h1_markup", "title_prefixed", "title_bare", "none"}

ActName == <<"Innebandy">>
Unknown == <<"Unknown">>

DetailPages ==
    [head : Heads, has_status : BOOLEAN, has_answer : BOOLEAN,
     rows : SeqUpTo(RosterRows, MaxRows)]

\* the page as the regular expressions see it: <tr> and <td> in document order
RECURSIVE Flat(_)
Flat(rows) ==
    IF rows = <<>> THEN <<>>
    ELSE <<[kind |-> "tr", text |-> <<>>, plain |-> TRUE]>>
         \o [i \in 1..Len(Head(rows)) |->
                [kind |-> "td", text |-> Head(rows)[i].text,
                 plain |-> Head(rows)[i].plain]]
         \o Flat(Tail(rows))

\* .*?<td[^>]*>([^<]+)</td> (nonEmpty) or .*?<td[^>]*>([^<]*)</td>: the first
\* <td> from position `from` on whose content is text only; 0 when none
FindTd(toks, from, nonEmpty) ==
    LET S == {i \in from..Len(toks) :
                /\ toks[i].kind = "td"
                /\ toks[i].plain
                /\ (nonEmpty => toks[i].text # <<>>)}
    IN  IF S = {} THEN 0 ELSE Min(S)

FindTr(toks, from) ==
    LET S == {i \in from..Len(toks) : toks[i].kind = "tr"}
    IN  IF S = {} THEN 0 ELSE Min(S)

\* re.findall(participant_pattern, html, re.DOTALL): non-overlapping matches,
\* each from a <tr> through the next four text-only cells (the first two
\* non-empty), wherever those cells are
RECURSIVE participant_matches(_, _)
participant_matches(toks, pos) ==
    LET tr == FindTr(toks, pos)
        j1 == IF tr = 0 THEN 0 ELSE FindTd(toks, tr + 1, TRUE)
        j2 == IF j1 = 0 THEN 0 ELSE FindTd(toks, j1 + 1, TRUE)
        j3 == IF j2 = 0 THEN 0 ELSE FindTd(toks, j2 + 1, FALSE)
        j4 == IF j3 = 0 THEN 0 ELSE FindTd(toks, j3 + 1, FALSE)
    IN  IF j4 = 0 THEN <<>>
        ELSE <<[name |-> toks[j1].text, status_text |-> toks[j2].text,
                comment |-> toks[j3].text, timestamp |-> toks[j4].text]>>
             \o participant_matches(toks, j4 + 1)

\* the if/elif chain mapping status text to a status code
status_code(status_text) ==
    IF Contains(status_text, <<"Kommer">>) THEN "yes"
    ELSE IF Contains(status_text, <<"Kommer", "inte">>) THEN "no"
    ELSE IF Contains(status_text, <<"Endast", "kommentar">>) THEN "comment_only"
    ELSE "no_response"

\* one pass of the participant loop: classify, count, append
participant_step(acc, m) ==
    LET status == status_code(m.status_text)
        guests == IF status = "yes" THEN GuestMatch(m.status_text) ELSE 0
    IN  [participants |->
            Append(acc.participants,
                   [name |-> m.name, status |-> status, comment |-> m.comment,
                    timestamp |-> m.timestamp, guests |-> guests]),
         attending_count |->
            acc.attending_count + (IF status = "yes" THEN 1 ELSE 0),
         not_attending_count |->
            acc.not_attending_count
                + (IF status \in {"no", "comment_only"} THEN 1 ELSE 0),
         no_response_count |->
            acc.no_response_count + (IF status = "no_response" THEN 1 ELSE 0)]

RECURSIVE participant_loop(_, _)
participant_loop(acc, ms) ==
    IF ms = <<>> THEN acc
    ELSE participant_loop(participant_step(acc, Head(ms)), Tail(ms))

EmptyCounts ==
    [participants |-> <<>>, attending_count |-> 0,
     not_attending_count |-> 0, no_response_count |-> 0]

AnswerUrl == "https://www.bokat.se/answer.jsp"

\* BokatApiClient._parse_activity_details
parse_activity_details(page, activity_url) ==
    LET acc == participant_loop(EmptyCounts, participant_matches(Flat(page.rows), 1))
    IN  [name |-> IF page.head = "h1_plain" THEN ActName ELSE Unknown,
         status |-> IF page.has_status THEN <<"Open">> ELSE Unknown,
         url |-> activity_url,
         participants |-> acc.participants,
         total_participants |-> Len(acc.participants),
         attending_count |-> acc.attending_count,
         not_attending_count |-> acc.not_attending_count,
         no_response_count |-> acc.no_response_count,
         answer_url |-> IF page.has_answer THEN AnswerUrl ELSE ""]

\* whether the name `re` is bound at module level in bokat_se/__init__.py (the
\* module imports asyncio, logging, os, shutil, ...; `import re` appears only
\* inside other functions, which binds it there alone)
ModuleImportsRe == FALSE

\* one pass of the row loop of _parse_activity_details_with_soup; acc.raised
\* is set when the pass raises (NameError on `re`), which ends the loop
soup_step(acc, cells) ==
    LET name == cells[1].text
        status_text == cells[2].text
        comment == cells[3].text
        timestamp == IF Len(cells) > 3 THEN cells[4].text ELSE <<>>
        isHeader == \/ Lower(name) \in {<<"namn">>, <<"name">>}
                    \/ Lower(status_text) \in {<<"status">>}
        m == [name |-> name, status_text |-> status_text,
              comment |-> comment, timestamp |-> timestamp]
    IN  IF Len(cells) < 3 \/ isHeader THEN acc
        ELSE IF Contains(status_text, <<"Kommer">>) /\ ~ModuleImportsRe
             THEN [acc EXCEPT !.raised = TRUE]
        ELSE [raised |-> FALSE] @@ participant_step(acc, m)

RECURSIVE soup_loop(_, _)
soup_loop(acc, rows) ==
    IF rows = <<>> \/ acc.raised THEN acc
    ELSE soup_loop(soup_step(acc, Head(rows)), Tail(rows))

\* BokatApiClient._parse_activity_details_with_soup: the details it leaves
\* (existing_details is updated in place) and whether it raised
parse_activity_details_with_soup(page, activity_url, existing_details) ==
    LET headed == [existing_details EXCEPT
                     !.name = IF page.head \in {"none"} THEN @ ELSE ActName,
                     !.status = IF page.has_status THEN <<"Open">> ELSE @,
                     !.answer_url = IF page.has_answer THEN AnswerUrl ELSE @]
        acc == soup_loop([raised |-> FALSE] @@ EmptyCounts, page.rows)
    IN  IF acc.raised THEN [raised |-> TRUE, details |-> headed]
        ELSE IF acc.participants # <<>>
             THEN [raised |-> FALSE,
                   details |-> [headed EXCEPT
                       !.participants = acc.participants,
                       !.total_participants = Len(acc.participants),
                       !.attending_count = acc.attending_count,
                       !.not_attending_count = acc.not_attending_count,
                       !.no_response_count = acc.no_response_count]]
        ELSE [raised |-> FALSE, details |-> headed]

\* lines 981-993 of get_activity_details: the regex pass, then the
\* BeautifulSoup pass when the first found a name but no participants; an
\* exception of the second pass is logged and the details kept
extract_details(page, activity_url) ==
    LET details == parse_activity_details(page, activity_url)
    IN  IF details.participants = <<>> /\ details.name # Unknown
        THEN parse_activity_details_with_soup(page, activity_url, details).details
        ELSE details

----------------------------------------------------------------------------
(* Printable detail pages (statPrint.jsp) as the library's BokatAPI reads them *)

\* a chunk of html.split('<tr>'): whether it holds a
\* <td class="TextSmall" align="left"> cell, which font marker it holds
\* ("Ja" for <font color="green">Ja!, "Nej" for <font color="red">Nej!),
\* the text of that cell before <br>, the +N of the width="50" cell
\* (0: none), the text of the <td class="TextSmall" > cell
StatRow(td, marker, name, guests, comment) ==
    [td |-> td, marker |-> marker, name |-> name, guests |-> guests,
     comment |-> comment]

StatRows ==
    {StatRow(TRUE, "Ja", <<"Anna">>, 2, <<"Hej">>),
     StatRow(TRUE, "Nej", <<"Bo">>, 0, <<"&nbsp;">>),
     StatRow(TRUE, "none", <<"Cia">>, 0, <<"Hej">>),
     StatRow(TRUE, "none", <<"Dan">>, 0, <<>>),
     StatRow(TRUE, "Ja", <<"Ja!">>, 0, <<>>),
     StatRow(FALSE, "none", <<>>, 0, <<>>)}

\* the "Sammanstallning" line: absent, or its four numbers
Summaries ==
    {[present |-> FALSE, invited |-> 0, attendees |-> 0, rejects |-> 0,
      no_reply |-> 0]}
    \cup [present : {TRUE}, invited : 0..MaxCount, attendees : 0..MaxCount,
          rejects : 0..MaxCount, no_reply : 0..MaxCount]

\* guests: the number of the "gaster/extra" line (0 also when it is absent)
StatPages ==
    [h1 : BOOLEAN, summary : Summaries, guests : {0, 2},
     rows : SeqUpTo(StatRows, MaxRows)]

\* one pass of the row loop of _parse_activity_info
stat_row_step(participants, row) ==
    LET status == IF row.marker = "Ja" THEN "Attending"
                  ELSE IF row.marker = "Nej" THEN "NotAttending"
                  ELSE "NoReply"
        comment == IF row.comment = <<"&nbsp;">> THEN <<>> ELSE row.comment
    IN  IF ~row.td THEN participants
        ELSE IF row.name = <<>> \/ row.name \in {<<"Ja!">>, <<"Nej!">>}
             THEN participants
        ELSE Append(participants,
                    [name |-> row.name, timestamp |-> <<>>, status |-> status,
                     comment |-> comment, guests |-> row.guests])

RECURSIVE stat_row_loop(_, _)
stat_row_loop(participants, rows) ==
    IF rows = <<>> THEN participants
    ELSE stat_row_loop(stat_row_step(participants, Head(rows)), Tail(rows))

\* the counts of the result: read from the summary line when it is there
stat_counts(page) ==
    IF page.summary.present
    THEN [invited |-> page.summary.invited,
          attendees |-> page.summary.attendees,
          rejects |-> page.summary.rejects,
          no_reply |-> page.summary.no_reply]
    ELSE [attendees |-> 0, rejects |-> 0, no_reply |-> 0]

\* BokatAPI._parse_activity_info (library)
parse_activity_info(page) ==
    LET counts == stat_counts(page)
    IN  counts @@
        [name |-> IF page.h1 THEN ActName ELSE <<>>,
         guests |-> page.guests,
         participants |-> stat_row_loop(<<>>, page.rows),
         total_attending |-> counts.attendees + page.guests]

----------------------------------------------------------------------------
(* Listing pages (userPage.jsp) as the library's BokatAPI reads them *)

\* an activity block of the page: its "Grupp:" row and its "Tid:" row, when
\* it has them ("none": it has not), and its "Aktivitet:" row
Blocks == [group : {"none", "G1", "G2"}, time : {"none", "T1"},
           name : {"Dinner", "Hike"}]

LabelRow(label, value) == [label |-> label, value |-> value]

\* the <tr> rows of a sequence of blocks, in document order
RECURSIVE BlockRows(_)
BlockRows(blocks) ==
    IF blocks = <<>> THEN <<>>
    ELSE LET b == Head(blocks)
         IN  (IF b.group = "none" THEN <<>> ELSE <<LabelRow("Grupp:", b.group)>>)
             \o (IF b.time = "none" THEN <<>> ELSE <<LabelRow("Tid:", b.time)>>)
             \o <<LabelRow("Aktivitet:", b.name)>>
             \o BlockRows(Tail(blocks))

\* an <a href> holding 'stat.jsp': how the href is written, and the digits
\* after eventId= and userId= ("none": the parameter is missing)
Links ==
    {[form |-> "relative", eventId |-> "1", userId |-> "7"],
     [form |-> "rooted", eventId |-> "2", userId |-> "7"],
     [form |-> "absolute", eventId |-> "3", userId |-> "none"]}

ListingPages ==
    {[blocks |-> bs, rows |-> BlockRows(bs), links |-> ls] :
        bs \in SeqUpTo(Blocks, MaxBlocks), ls \in SeqUpTo(Links, MaxLinks)}

\* the resolved url of a link: every form ends at base_url + the page
StatUrl(link) == <<"https://www.bokat.se/", "stat.jsp", link.eventId, link.userId>>

\* scan_row with the current group forgotten after each activity row
scan_row_group_per_activity(st, row) ==
    LET g == IF row.label = "Grupp:" THEN row.value ELSE st.current_group
        t == IF row.label = "Tid:" THEN row.value ELSE st.current_time
        isNew == /\ row.label = "Aktivitet:"
                 /\ row.value # ""
                 /\ \A i \in 1..Len(st.names) : st.names[i] # row.value
    IN  [names |-> IF isNew THEN Append(st.names, row.value) ELSE st.names,
         groups |-> IF isNew /\ g \notin {"none", ""}
                    THEN (row.value :> g) @@ st.groups ELSE st.groups,
         times |-> IF isNew /\ t \notin {"none", ""}
                   THEN (row.value :> t) @@ st.times ELSE st.times,
         current_group |-> IF row.label = "Aktivitet:" THEN "none" ELSE g,
         current_time |-> t]

\* first pass of _parse_activities: scan the rows, tracking the current
\* group and time; st = [names, groups, times, current_group, current_time]
\* where groups and times are the dicts keyed by activity name
scan_row(st, row) ==
    LET g == IF row.label = "Grupp:" THEN row.value ELSE st.current_group
        t == IF row.label = "Tid:" THEN row.value ELSE st.current_time
        isNew == /\ row.label = "Aktivitet:"
                 /\ row.value # ""
                 /\ \A i \in 1..Len(st.names) : st.names[i] # row.value
    IN  [names |-> IF isNew THEN Append(st.names, row.value) ELSE st.names,
         groups |-> IF isNew /\ g \notin {"none", ""}
                    THEN (row.value :> g) @@ st.groups ELSE st.groups,
         times |-> IF isNew /\ t \notin {"none", ""}
                   THEN (row.value :> t) @@ st.times ELSE st.times,
         current_group |-> g,
         current_time |-> t]

RECURSIVE scan_rows(_, _)
scan_rows(st, rows) ==
    IF rows = <<>> THEN st
    ELSE scan_rows(scan_row(st, Head(rows)), Tail(rows))

EmptyDict == [x \in {} |-> ""]

\* second pass: the stat.jsp links in document order
stat_links(links) ==
    [i \in 1..Len(links) |->
        [url |-> StatUrl(links[i]), eventId |-> links[i].eventId,
         userId |-> links[i].userId]]

\* third pass: the i-th activity name with the i-th link, while both exist
match_activity(st, sl, i) ==
    LET name == st.names[i]
    IN  [name |-> name,
         group |-> IF name \in DOMAIN st.groups THEN st.groups[name]
                   ELSE "Unknown Group",
         url |-> sl[i].url,
         eventId |-> sl[i].eventId,
         userId |-> sl[i].userId]
        @@ (IF name \in DOMAIN st.times THEN [time |-> st.times[name]]
            ELSE EmptyDict)

MinOf(n, m) == IF n < m THEN n ELSE m

\* BokatAPI._parse_activities (library)
lib_parse_activities(page) ==
    LET st == scan_rows([names |-> <<>>, groups |-> EmptyDict,
                         times |-> EmptyDict, current_group |-> "none",
                         current_time |-> "none"], page.rows)
        sl == stat_links(page.links)
    IN  [i \in 1..MinOf(Len(st.names), Len(sl)) |-> match_activity(st, sl, i)]

----------------------------------------------------------------------------
(* Listing pages as the integration's own BokatAPI (bokat_se/bokatapi.py)
   reads them *)

\* a row of the table headed "Aktiviteter": the stat.jsp link it holds
\* ("none": it holds none), and the texts of its second and third cells
TableRow(link, label, value) == [link |-> link, label |-> label, value |-> value]
TableRows ==
    {TableRow("stat.jsp?eventId=1", "Aktivitet", "Dinner"),
     TableRow("stat.jsp?eventId=2", "other", ""),
     TableRow("none", "Aktivitet", "Hike"),
     TableRow("none", "Grupp", "G1")}

\* a link whose href holds stat.jsp or eventId, outside that table: its
\* text, whether it is inside the content area, inside a table row
PageLink(href, name, in_content, in_table) ==
    [href |-> href, name |-> name, in_content |-> in_content, in_table |-> in_table]
PageLinks ==
    {PageLink("stat.jsp?eventId=3", "Golf", TRUE, FALSE),
     PageLink("stat.jsp?eventId=4", "Bio", FALSE, TRUE),
     PageLink("stat.jsp?eventId=5", "Bad", FALSE, FALSE),
     PageLink("stat.jsp?eventId=6", "", TRUE, TRUE)}

\* an .activity-item / .event-item / .card / .list-item: its first link
Items == {[href |-> "item.jsp?id=7", name |-> "Yoga"], [href |-> "", name |-> "Tom"]}

\* the inline script: none, or JSON with an "activities" or "events" list
Scripts ==
    {[key |-> "none", entries |-> <<>>],
     [key |-> "activities", entries |-> <<[name |-> "Kor", url |-> "u8"]>>],
     [key |-> "events", entries |-> <<[name |-> "Lopp", id |-> "9"]>>]}

\* a page without the "Aktiviteter" header has no such table
UserPages ==
    {p \in [has_header : BOOLEAN, table : SeqUpTo(TableRows, MaxTableRows),
            has_content : BOOLEAN, links : SeqUpTo(PageLinks, MaxClientRows),
            items : SeqUpTo(Items, MaxClientRows), script : Scripts] :
        ~p.has_header => p.table = <<>>}

\* one row of the "userPage.jsp format" pass; st = [activities, current]
\* where current is the activity being filled (<<>>: none yet)
table_row_step(st, row) ==
    LET started == row.link # "none"
        pushed == IF started /\ st.current # <<>>
                  THEN Append(st.activities, st.current) ELSE st.activities
        cur == IF started
               THEN [name |-> "", url |-> SiteUrl(row.link), group |-> "",
                     date_time |-> ""]
               ELSE st.current
        filled == IF cur = <<>> THEN cur
                  ELSE IF row.label = "Grupp" THEN [cur EXCEPT !.group = row.value]
                  ELSE IF row.label = "Aktivitet" THEN [cur EXCEPT !.name = row.value]
                  ELSE IF row.label = "Tid" THEN [cur EXCEPT !.date_time = row.value]
                  ELSE cur
    IN  [activities |-> pushed, current |-> filled]

RECURSIVE table_rows_loop(_, _)
table_rows_loop(st, rows) ==
    IF rows = <<>> THEN st
    ELSE table_rows_loop(table_row_step(st, Head(rows)), Tail(rows))

\* lines 184-251: the table headed "Aktiviteter"
userpage_format(page) ==
    IF ~page.has_header THEN <<>>
    ELSE LET st == table_rows_loop([activities |-> <<>>, current |-> <<>>],
                                   page.table)
         IN  IF st.current # <<>> THEN Append(st.activities, st.current)
             ELSE st.activities

\* the link belongs to the part of the page a pass selects from
Selected(l, where) ==
    IF where = "content" THEN l.in_content
    ELSE IF where = "table" THEN l.in_table
    ELSE TRUE

\* the links of the selected part that have a text and an href, as activities
RECURSIVE link_activities(_, _)
link_activities(links, where) ==
    IF links = <<>> THEN <<>>
    ELSE (IF Selected(Head(links), where) /\ Head(links).name # ""
             /\ Head(links).href # ""
          THEN <<[name |-> Head(links).name, url |-> SiteUrl(Head(links).href)]>>
          ELSE <<>>)
         \o link_activities(Tail(links), where)

\* lines 378-422: the entries of the script's JSON that have a name and a
\* url, or a name and an id
RECURSIVE script_activities(_)
script_activities(entries) ==
    IF entries = <<>> THEN <<>>
    ELSE LET e == Head(entries)
         IN  (IF "name" \in DOMAIN e /\ "url" \in DOMAIN e THEN <<e>>
              ELSE IF "name" \in DOMAIN e /\ "id" \in DOMAIN e
              THEN <<[name |-> e.name,
                      url |-> <<"https://www.bokat.se/", "stat.jsp?eventId=", e.id>>]>>
              ELSE <<>>)
             \o script_activities(Tail(entries))

\* BokatAPI._parse_activities (integration)
old_parse_activities(page) ==
    LET a1 == userpage_format(page)
        a2 == IF page.has_content THEN link_activities(page.links, "content")
              ELSE <<>>
        a3 == IF a2 = <<>> THEN link_activities(page.links, "table") ELSE a2
        a4 == IF a3 = <<>> THEN link_activities(page.links, "all") ELSE a3
        a5 == IF a4 = <<>>
              THEN link_activities(page.items, "all")
                   \o script_activities(page.script.entries)
              ELSE a4
    IN  IF a1 # <<>> THEN a1 ELSE a5

----------------------------------------------------------------------------
(* How a call ends *)

Return(value) == [kind |-> "return", value |-> value]
Raise(exc) == [kind |-> "raise", value |-> exc]

\* the respond service call being handled: the entity_id it names, how many
\* times its handler has called client.submit_response and
\* coord.async_refresh, where the handler is, and what submit_response
\* returned to it
Service(entity, submits, refreshes, at, submitted) ==
    [entity |-> entity, submits |-> submits, refreshes |-> refreshes,
     at |-> at, submitted |-> submitted]
NoService == Service("none", 0, 0, "none", "none")

\* the call is one the client is used for now: any call without the
\* coordinator, else the call _async_update_data is awaiting
Awaited(op, args) ==
    \/ coord.mode = "off"
    \/ coord.mode = "listing" /\ op = "get_activities"
    \/ coord.mode = "details" /\ op = "get_activity_details"
          /\ coord.activity_url.set
          /\ args = <<coord.activity_url.url>>
    \/ coord.mode = "responding" /\ op = "submit_response"
          /\ args[1] = coord.activity_url.url

\* the call `op` with arguments `args` ends with outcome `r`, leaving the
\* client's cookies `c`, having issued `lg`
Ends(op, args, c, r, lg) ==
    /\ Awaited(op, args)
    /\ pc' = "done"
    /\ call' = [op |-> op, args |-> args]
    /\ cookies' = c
    /\ ret' = r
    /\ log' = lg
    /\ UNCHANGED <<api, coord>>

----------------------------------------------------------------------------
(* Server responses *)

\* a response: its HTTP status and the marker phrases its body contains;
\* kind "error" is a timeout or an aiohttp.ClientError instead of a response
Resp(status, marks) == [kind |-> "resp", status |-> status, marks |-> marks]
NoResp == [kind |-> "error", status |-> 0, marks |-> {}]

\* a variant that knows only the link text
HasLoginMarker_LinkTextOnly(r) == "Logga in" \in r.marks

\* "Logga in" in html or "login.jsp" in html
HasLoginMarker(r) == "Logga in" \in r.marks \/ "login.jsp" \in r.marks

\* the answers a GET of a protected page can get
Fetches ==
    {NoResp, Resp(500, {}), Resp(200, {}), Resp(200, {"Logga in"}),
     Resp(200, {"login.jsp"})}

----------------------------------------------------------------------------
(* BokatApiClient.login: the cascade of five strategies *)

\* what one strategy does: whether it reports success, what it leaves in
\* self._cookies ("keep": it does not assign it), and the exception that
\* escapes it ("none": it returns)
Outcome(ok, jar) == [ok |-> ok, jar |-> jar, exc |-> "none"]
Escapes(jar, exc) == [ok |-> FALSE, jar |-> jar, exc |-> exc]

\* _login_standard stores response.cookies whatever the answer says; a
\* transport error before that leaves the cookies; response.text() of an
\* undecodable body raises past `except (TimeoutError, ClientError)`
StandardOutcomes ==
    {Outcome(ok, jar) : ok \in BOOLEAN, jar \in {"empty", "set"}}
    \cup {Outcome(FALSE, "keep")}
    \cup {Escapes(jar, "UnicodeDecodeError") : jar \in {"empty", "set"}}

\* what the server does to _login_alternative: the login page is undecodable,
\* or the login page (initial) and the login response (post) carry cookies
\* or not and the answer is taken for a success or not
AlternativeAnswers ==
    {[undecodable |-> TRUE, initial |-> FALSE, post |-> FALSE, ok |-> FALSE]}
    \cup [undecodable : {FALSE}, initial : BOOLEAN, post : BOOLEAN, ok : BOOLEAN]

\* lines 429-436: initial cookies replace self._cookies when there are any;
\* the login response's cookies are then written into self._cookies, which
\* fails on None
login_alternative(c, b) ==
    LET c1 == IF b.initial THEN "set" ELSE c
    IN  IF b.undecodable
        THEN [ok |-> FALSE, cookies |-> c, exc |-> "UnicodeDecodeError"]
        ELSE IF b.post /\ c1 = "none"
        THEN [ok |-> FALSE, cookies |-> c1, exc |-> "TypeError"]
        ELSE [ok |-> b.ok, cookies |-> IF b.post THEN "set" ELSE c1,
              exc |-> "none"]

\* _login_browser_simulation stores the merged cookies before it decides; a
\* login page without the form leaves login_url unassigned (line 558); an
\* undecodable login page or login response raises
BrowserOutcomes ==
    {Outcome(ok, jar) : ok \in BOOLEAN, jar \in {"empty", "set"}}
    \cup {Outcome(FALSE, "keep")}
    \cup {Escapes("keep", "UnboundLocalError"), Escapes("keep", "UnicodeDecodeError")}
    \cup {Escapes(jar, "UnicodeDecodeError") : jar \in {"empty", "set"}}

\* _login_direct_http and _login_final_fallback assign only on success and
\* catch every Exception
DirectOutcomes ==
    {Outcome(TRUE, jar) : jar \in {"empty", "set"}} \cup {Outcome(FALSE, "keep")}

FallbackOutcomes ==
    {Outcome(TRUE, jar) : jar \in {"empty", "set"}} \cup {Outcome(FALSE, "keep")}

\* what the server makes of each strategy, were it tried
LoginScripts ==
    {<<s1, s2, s3, s4, s5>> :
        s1 \in StandardOutcomes, s2 \in AlternativeAnswers,
        s3 \in BrowserOutcomes, s4 \in DirectOutcomes, s5 \in FallbackOutcomes}

Jar(c, o) == IF o.jar = "keep" THEN c ELSE o.jar

\* strategy i run from cookies c against the server's behaviour b
Strategy(i, c, b) ==
    IF i = 2 THEN login_alternative(c, b)
    ELSE [ok |-> b.ok, cookies |-> Jar(c, b), exc |-> b.exc]

\* login(): try strategy i, return True when it succeeds, else go on; the
\* last strategy's answer is returned as it is; an exception that escapes a
\* strategy escapes login()
\* trace: the strategies awaited, each with what it reported
StrategyNames ==
    <<"_login_standard", "_login_alternative", "_login_browser_simulation",
      "_login_direct_http", "_login_final_fallback">>

RECURSIVE login_from(_, _, _)
login_from(c, script, i) ==
    LET r == Strategy(i, c, script[i])
        awaited == [ev |-> "strategy", name |-> StrategyNames[i], ok |-> r.ok,
                    exc |-> r.exc]
    IN  IF r.exc # "none" \/ r.ok \/ i = Len(script)
        THEN [ok |-> r.ok, cookies |-> r.cookies, exc |-> r.exc, tried |-> i,
              trace |-> <<awaited>>]
        ELSE LET rest == login_from(r.cookies, script, i + 1)
             IN  [rest EXCEPT !.trace = <<awaited>> \o @]

\* login() that begins with the alternative method
login_without_standard(c, script) == login_from(c, script, 2)

login(c, script) == login_from(c, script, 1)

\* the answers login() can give from cookies c
LoginResults(c) ==
    {[ok |-> r.ok, cookies |-> r.cookies, exc |-> r.exc] :
        r \in {login(c, s) : s \in LoginScripts}}

\* how a caller of login() ends when login() did not return True
LoginFailure(l) ==
    IF l.exc # "none" THEN Raise(l.exc) ELSE Raise("ConfigEntryAuthFailed")

\* the events of a call: a login() call with its answer (cut: a timeout
\* ended it), a GET and its answer, a POST with
\* its form and its answer, the reading of the last answer's body
LoginEv(ok, cut, exc) ==
    [ev |-> "login", ok |-> ok, cut |-> cut, exc |-> exc]
GetEv(url, answer) == [ev |-> "get", url |-> url, answer |-> answer]
PostEv(url, data, answer) ==
    [ev |-> "post", url |-> url, data |-> data, answer |-> answer]
ReadEv == [ev |-> "read"]
\* the hidden inputs found in the answer form that was fetched
FormEv(hidden) == [ev |-> "form", hidden |-> hidden]

\* login() called inside `async with async_timeout.timeout(10)`: it answers,
\* or the timeout ends it part-way (cut), whatever it has stored by then
ReLoginResults(c) ==
    {[ok |-> r.ok, cookies |-> r.cookies, exc |-> r.exc, cut |-> FALSE] :
        r \in LoginResults(c)}
    \cup {[ok |-> FALSE, cookies |-> x, exc |-> "none", cut |-> TRUE] :
            x \in {c, "empty", "set"}}

\* if not self._cookies
NoCookies(c) == c \in {"none", "empty"}

----------------------------------------------------------------------------
(* BokatApiClient.get_activities *)

\* a row of the listing table: a link (its href and text) in the first cell
\* and, unless "absent", a second cell of text
HaListRows ==
    {[href |-> "stat.jsp?eventId=1&userId=7", text |-> <<"Dinner">>,
      status |-> <<"Open">>],
     [href |-> "stat.jsp?eventId=2&userId=7", text |-> <<"Hike">>,
      status |-> <<"absent">>],
     [href |-> "logout.jsp", text |-> <<"Logga", "ut">>, status |-> <<"-">>]}

HaListingPages == [rows : SeqUpTo(HaListRows, MaxClientRows)]

\* the listing as the regular expression sees it: <tr>, <a href>, text <td>
RECURSIVE FlatListing(_)
FlatListing(rows) ==
    IF rows = <<>> THEN <<>>
    ELSE LET r == Head(rows)
         IN  <<[kind |-> "tr", text |-> <<>>, plain |-> TRUE, href |-> ""],
               [kind |-> "a", text |-> r.text, plain |-> TRUE, href |-> r.href]>>
             \o (IF r.status = <<"absent">> THEN <<>>
                 ELSE <<[kind |-> "td", text |-> r.status, plain |-> TRUE,
                         href |-> ""]>>)
             \o FlatListing(Tail(rows))

FindA(toks, from) ==
    LET S == {i \in from..Len(toks) : toks[i].kind = "a" /\ toks[i].text # <<>>}
    IN  IF S = {} THEN 0 ELSE Min(S)


\* BokatApiClient._parse_activities: re.findall of
\* <tr ...>.*?<a href="..">text</a>.*?<td ..>text</td>
RECURSIVE ha_parse_activities(_, _)
ha_parse_activities(toks, pos) ==
    LET tr == FindTr(toks, pos)
        a == IF tr = 0 THEN 0 ELSE FindA(toks, tr + 1)
        td == IF a = 0 THEN 0 ELSE FindTd(toks, a + 1, TRUE)
    IN  IF td = 0 THEN <<>>
        ELSE <<[name |-> toks[a].text, status |-> toks[td].text,
                url |-> SiteUrl(toks[a].href)]>>
             \o ha_parse_activities(toks, td + 1)

\* 'stat.jsp' in href or 'eventId' in href
IsActivityHref(href) ==
    href \in {"stat.jsp?eventId=1&userId=7", "stat.jsp?eventId=2&userId=7"}

\* BokatApiClient._parse_activities_with_soup: the activity links of the
\* table rows, with the text of the row's second cell when it has one
RECURSIVE parse_activities_with_soup(_)
parse_activities_with_soup(rows) ==
    IF rows = <<>> THEN <<>>
    ELSE LET r == Head(rows)
         IN  (IF IsActivityHref(r.href)
              THEN <<[name |-> r.text,
                      status |-> IF r.status = <<"absent">> THEN Unknown
                                 ELSE r.status,
                      url |-> SiteUrl(r.href)]>>
              ELSE <<>>)
             \o parse_activities_with_soup(Tail(rows))

\* lines 861-873: the regex pass, then the BeautifulSoup pass when it is empty
extract_activities(page) ==
    LET activities == ha_parse_activities(FlatListing(page.rows), 1)
    IN  IF activities = <<>> THEN parse_activities_with_soup(page.rows)
        ELSE activities

MyActivitiesUrl == "https://www.bokat.se/myActivities.jsp"

\* lines 833-879, from cookies c and the events lg so far: the fetch, the
\* re-login and second fetch on a login marker, the parse
GetActivitiesFetch(c, lg) ==
    \E f1 \in Fetches :
        LET lg1 == Append(lg, GetEv(MyActivitiesUrl, f1))
        IN  IF f1.kind = "error" \/ f1.status # 200
            THEN Ends("get_activities", <<>>, c, Return(<<>>), lg1)
            ELSE IF HasLoginMarker(f1)
            THEN \E l2 \in ReLoginResults(c) :
                    LET lg2 == Append(lg1, LoginEv(l2.ok, l2.cut, l2.exc))
                    IN  IF l2.cut
                        THEN Ends("get_activities", <<>>, l2.cookies,
                                  Return(<<>>), lg2)
                        ELSE IF ~l2.ok
                        THEN Ends("get_activities", <<>>, l2.cookies,
                                  LoginFailure(l2), lg2)
                        ELSE \E f2 \in Fetches :
                            LET lg3 == Append(lg2, GetEv(MyActivitiesUrl, f2))
                            IN  IF f2.kind = "error" \/ f2.status # 200
                                THEN Ends("get_activities", <<>>, l2.cookies,
                                          Return(<<>>), lg3)
                                ELSE \E page \in HaListingPages :
                                    Ends("get_activities", <<>>, l2.cookies,
                                         Return(extract_activities(page)), lg3)
            ELSE \E page \in HaListingPages :
                    Ends("get_activities", <<>>, c,
                         Return(extract_activities(page)), lg1)

\* BokatApiClient.get_activities
GetActivities ==
    /\ api = HaClient
    /\ pc = "idle"
    /\ Awaited("get_activities", <<>>)
    /\ IF NoCookies(cookies)
       THEN \E l1 \in LoginResults(cookies) :
                IF ~l1.ok
                THEN Ends("get_activities", <<>>, l1.cookies,
                          LoginFailure(l1),
                          <<LoginEv(FALSE, FALSE, l1.exc)>>)
                ELSE GetActivitiesFetch(l1.cookies, <<LoginEv(TRUE, FALSE, "none")>>)
       ELSE GetActivitiesFetch(cookies, <<>>)

----------------------------------------------------------------------------
(* BokatApiClient.get_activity_details *)

\* an activity url: its page and its query parameters in order
ActivityUrl(params) ==
    [page |-> "stat.jsp", params |-> params, eventId |-> "1", userId |-> "7"]

ActivityUrls ==
    {ActivityUrl(<<"eventId", "userId">>), ActivityUrl(<<"userId", "eventId">>),
     ActivityUrl(<<"eventId">>)}

ClientDetailPages == {p \in DetailPages : Len(p.rows) <= MaxClientRows}

\* lines 953-999, from cookies c and the events lg so far
GetActivityDetailsFetch(url, c, lg) ==
    \E f1 \in Fetches :
        LET lg1 == Append(lg, GetEv(url, f1))
        IN  IF f1.kind = "error" \/ f1.status # 200
            THEN Ends("get_activity_details", <<url>>, c, Return(<<>>), lg1)
            ELSE IF HasLoginMarker(f1)
            THEN \E l2 \in ReLoginResults(c) :
                    LET lg2 == Append(lg1, LoginEv(l2.ok, l2.cut, l2.exc))
                    IN  IF l2.cut
                        THEN Ends("get_activity_details", <<url>>, l2.cookies,
                                  Return(<<>>), lg2)
                        ELSE IF ~l2.ok
                        THEN Ends("get_activity_details", <<url>>, l2.cookies,
                                  LoginFailure(l2), lg2)
                        ELSE \E f2 \in Fetches :
                            LET lg3 == Append(lg2, GetEv(url, f2))
                            IN  IF f2.kind = "error" \/ f2.status # 200
                                THEN Ends("get_activity_details", <<url>>,
                                          l2.cookies, Return(<<>>), lg3)
                                ELSE \E page \in ClientDetailPages :
                                    Ends("get_activity_details", <<url>>,
                                         l2.cookies,
                                         Return(extract_details(page, url)), lg3)
            ELSE \E page \in ClientDetailPages :
                    Ends("get_activity_details", <<url>>, c,
                         Return(extract_details(page, url)), lg1)

\* BokatApiClient.get_activity_details
GetActivityDetails ==
    /\ api = HaClient
    /\ pc = "idle"
    /\ \E url \in IF coord.mode = "details" THEN {coord.activity_url.url}
                  ELSE ActivityUrls :
        /\ Awaited("get_activity_details", <<url>>)
        /\ IF NoCookies(cookies)
           THEN \E l1 \in LoginResults(cookies) :
                   IF ~l1.ok
                   THEN Ends("get_activity_details", <<url>>, l1.cookies,
                             LoginFailure(l1),
                             <<LoginEv(FALSE, FALSE, l1.exc)>>)
                   ELSE GetActivityDetailsFetch(url, l1.cookies, <<LoginEv(TRUE, FALSE, "none")>>)
           ELSE GetActivityDetailsFetch(url, cookies, <<>>)

----------------------------------------------------------------------------
(* BokatApiClient.submit_response *)

\* const.py: ATTENDANCE_YES, ATTENDANCE_NO, ATTENDANCE_COMMENT_ONLY
ATTENDANCE_YES == "yes"
ATTENDANCE_NO == "no"
ATTENDANCE_COMMENT_ONLY == "comment_only"

Attendances == {ATTENDANCE_YES, ATTENDANCE_NO, ATTENDANCE_COMMENT_ONLY}
Comments == {"", "Hej"}

\* Python: str(n)
Str(n) ==
    CASE n = 0 -> "0" [] n = 1 -> "1" [] n = 2 -> "2" [] n = 3 -> "3"
      [] n = 4 -> "4" [] n = 5 -> "5" [] n = 6 -> "6" [] n = 7 -> "7"
      [] n = 8 -> "8" [] n = 9 -> "9"

\* re.search(r"eventId=(\d+)&userId=(\d+)", activity_url)
UrlMatch(url) ==
    \E i \in 1..(Len(url.params) - 1) :
        url.params[i] = "eventId" /\ url.params[i + 1] = "userId"

\* the hidden inputs of the answer form, in document order
Hidden(name, value) == [name |-> name, value |-> value]
HiddenForms ==
    {<<>>, <<Hidden("token", "abc")>>, <<Hidden("sid", "")>>,
     <<Hidden("guests", "5"), Hidden("token", "abc")>>}

\* a variant that posts the caller's guests whatever the attendance
form_data_callers_guests(url, attendance, guests, comment) ==
    [eventId |-> url.eventId,
     userId |-> url.userId,
     attendance |-> IF attendance \in Attendances THEN attendance ELSE "yes",
     guests |-> Str(guests),
     comment |-> comment,
     submit |-> "Svara"]

\* lines 1214-1221: the form before the answer page is read
form_data(url, attendance, guests, comment) ==
    [eventId |-> url.eventId,
     userId |-> url.userId,
     attendance |-> IF attendance \in Attendances THEN attendance ELSE "yes",
     guests |-> IF attendance = ATTENDANCE_YES THEN Str(guests) ELSE "0",
     comment |-> comment,
     submit |-> "Svara"]

\* lines 1258-1263: a hidden input is added when it has a name and a value
\* and the form has no field of that name yet
RECURSIVE add_hidden(_, _)
add_hidden(data, fields) ==
    IF fields = <<>> THEN data
    ELSE LET f == Head(fields)
         IN  add_hidden(IF f.name # "" /\ f.value # "" /\ f.name \notin DOMAIN data
                        THEN data @@ (f.name :> f.value) ELSE data,
                        Tail(fields))

\* the answers the POST of a reply can get
PostAnswers ==
    {NoResp, Resp(302, {}), Resp(303, {}), Resp(500, {}), Resp(200, {}),
     Resp(200, {"Tack for ditt svar"}), Resp(200, {"Thank you for your response"}),
     Resp(200, {"Logga in"}), Resp(200, {"login.jsp"})}

AnswerPostUrl == "https://www.bokat.se/answer.jsp"
AnswerFormUrl(url) == <<"https://www.bokat.se/answer.jsp", url.eventId, url.userId>>

\* a variant that takes every 200 for a success
submit_result_any_200(p) == p.status \in {200, 302}

\* lines 1276-1294: what the answer to the POST is taken to mean
submit_result(p) ==
    IF p.status = 302 THEN TRUE
    ELSE IF p.status = 200
    THEN ("Tack for ditt svar" \in p.marks
          \/ "Thank you for your response" \in p.marks)
    ELSE FALSE

\* lines 1267-1297: the POST of the form and the reading of its answer
SubmitPost(args, c, data, lg) ==
    \E p \in PostAnswers :
        LET lg1 == Append(lg, PostEv(AnswerPostUrl, data, p))
        IN  IF p.kind = "error"
            THEN Ends("submit_response", args, c, Return(FALSE), lg1)
            ELSE Ends("submit_response", args, c, Return(submit_result(p)),
                      IF p.status = 200 THEN Append(lg1, ReadEv) ELSE lg1)

\* lines 1212-1265: the answer form is fetched (again after a re-login when
\* it shows a login marker) and its hidden inputs are added to the form
SubmitFetch(args, c, data, lg) ==
    \E f1 \in Fetches :
        LET lg1 == Append(lg, GetEv(AnswerFormUrl(args[1]), f1))
        IN  IF f1.kind = "error"
            THEN Ends("submit_response", args, c, Return(FALSE), lg1)
            ELSE IF f1.status # 200
            THEN SubmitPost(args, c, data, lg1)
            ELSE IF HasLoginMarker(f1)
            THEN \E l2 \in ReLoginResults(c) :
                    LET lg2 == Append(lg1, LoginEv(l2.ok, l2.cut, l2.exc))
                    IN  IF l2.cut
                        THEN Ends("submit_response", args, l2.cookies,
                                  Return(FALSE), lg2)
                        ELSE IF ~l2.ok
                        THEN Ends("submit_response", args, l2.cookies,
                                  LoginFailure(l2), lg2)
                        ELSE \E f2 \in Fetches :
                            LET lg3 == Append(lg2, GetEv(AnswerFormUrl(args[1]), f2))
                            IN  IF f2.kind = "error" \/ f2.status # 200
                                THEN Ends("submit_response", args, l2.cookies,
                                          Return(FALSE), lg3)
                                ELSE \E h \in HiddenForms :
                                    SubmitPost(args, l2.cookies,
                                               add_hidden(data, h),
                                               Append(lg3, FormEv(h)))
            ELSE \E h \in HiddenForms :
                    SubmitPost(args, c, add_hidden(data, h),
                               Append(lg1, FormEv(h)))

\* lines 1194-1221 and on, once logged in
SubmitLoggedIn(args, c, lg) ==
    IF ~UrlMatch(args[1])
    THEN Ends("submit_response", args, c, Return(FALSE), lg)
    ELSE SubmitFetch(args, c, form_data(args[1], args[2], args[3], args[4]), lg)

\* BokatApiClient.submit_response
SubmitResponse ==
    /\ api = HaClient
    /\ pc = "idle"
    /\ \E url \in ActivityUrls, attendance \in Attendances,
          guests \in 0..MaxGuests, comment \in Comments :
        LET args == <<url, attendance, guests, comment>>
        IN  /\ Awaited("submit_response", args)
            /\ IF NoCookies(cookies)
               THEN \E l1 \in LoginResults(cookies) :
                       IF ~l1.ok
                       THEN Ends("submit_response", args, l1.cookies,
                                 LoginFailure(l1),
                                 <<LoginEv(FALSE, FALSE, l1.exc)>>)
                       ELSE SubmitLoggedIn(args, l1.cookies, <<LoginEv(TRUE, FALSE, "none")>>)
               ELSE SubmitLoggedIn(args, cookies, <<>>)

----------------------------------------------------------------------------
(* The extraction functions applied to a page *)

DefaultDetails(activity_url) ==
    [name |-> Unknown, status |-> Unknown, url |-> activity_url,
     participants |-> <<>>, total_participants |-> 0, attending_count |-> 0,
     not_attending_count |-> 0, no_response_count |-> 0, answer_url |-> ""]

ParseActivityDetails ==
    /\ api = HaClient
    /\ pc = "idle"
    /\ \E page \in DetailPages :
        Ends("_parse_activity_details", <<page>>, cookies,
             Return(parse_activity_details(page, "url")), <<>>)

\* existing_details is None: the defaults are used
ParseActivityDetailsWithSoup ==
    /\ api = HaClient
    /\ pc = "idle"
    /\ \E page \in DetailPages :
        LET r == parse_activity_details_with_soup(page, "url", DefaultDetails("url"))
        IN  Ends("_parse_activity_details_with_soup", <<page>>, cookies,
                 IF r.raised THEN Raise("NameError") ELSE Return(r.details), <<>>)

\* lines 981-993 of get_activity_details applied to a fetched page
ExtractDetails ==
    /\ api = HaClient
    /\ pc = "idle"
    /\ \E page \in DetailPages :
        Ends("extract_details", <<page>>, cookies,
             Return(extract_details(page, "url")), <<>>)

ParseActivityInfo ==
    /\ api = LibApi
    /\ pc = "idle"
    /\ \E page \in StatPages :
        Ends("_parse_activity_info", <<page>>, cookies,
             Return(parse_activity_info(page)), <<>>)

LibParseActivities ==
    /\ api = LibApi
    /\ pc = "idle"
    /\ \E page \in ListingPages :
        Ends("_parse_activities", <<page>>, cookies,
             Return(lib_parse_activities(page)), <<>>)

OldParseActivities ==
    /\ api = OldApi
    /\ pc = "idle"
    /\ \E page \in UserPages :
        Ends("_parse_activities", <<page>>, cookies,
             Return(old_parse_activities(page)), <<>>)

----------------------------------------------------------------------------
(* BokatAPI._login and list_activities, the same in the library and in the
   integration's own bokatapi.py but for the last lines of list_activities *)

UserPageUrl == "https://www.bokat.se/userPage.jsp"

\* the answers to the GET of userPage.jsp: the marks say whether the page
\* has the login form and its inputs named e and l
HomeAnswers ==
    {NoResp, Resp(500, {}), Resp(200, {}), Resp(200, {"form"}),
     Resp(200, {"form", "e"}), Resp(200, {"form", "e", "l"})}

\* the answers to the POST of the credentials, redirects followed: the marks
\* say whether the page has the login form, the heading "Anvandarsida"
LoginAnswers ==
    {NoResp, Resp(500, {}), Resp(200, {"form"}), Resp(200, {"Anvandarsida"})}

\* lines 82-107: the login form was loaded and has an e or an l input
form_found(home) ==
    /\ home.kind = "resp"
    /\ home.status = 200
    /\ "form" \in home.marks
    /\ ("e" \in home.marks \/ "l" \in home.marks)

\* lines 126-141: the answer to the POST is the authenticated page
logged_in(post) ==
    /\ post.kind = "resp"
    /\ post.status = 200
    /\ "Anvandarsida" \in post.marks

\* lines 63-64, 87-88, 122-123: None becomes {}, cookies of the responses
\* are added
StoreCookies(c, got) ==
    IF got THEN "set" ELSE IF c = "none" THEN "empty" ELSE c

\* the page a successful _login returns, as parsed by BeautifulSoup
SoupEv(page) == [ev |-> "soup", page |-> page]
\* the value _parse_activities returned inside list_activities
ParsedEv(value) == [ev |-> "parsed", value |-> value]

Credentials == [e |-> "user", l |-> "secret"]

\* _login: [ok, cookies, log]; got1, got2: the responses carry cookies
lib_login(c, home, got1, post, got2) ==
    LET c1 == StoreCookies(c, got1 /\ home.kind = "resp" /\ home.status = 200)
        c2 == StoreCookies(c1, got2 /\ post.kind = "resp")
        lg1 == <<GetEv(UserPageUrl, home)>>
    IN  IF ~form_found(home)
        THEN [ok |-> FALSE, cookies |-> c1, log |-> lg1]
        ELSE [ok |-> logged_in(post), cookies |-> c2,
              log |-> Append(lg1, PostEv(UserPageUrl, Credentials, post))]

ClientListingPages ==
    {[blocks |-> bs, rows |-> BlockRows(bs), links |-> ls] :
        bs \in SeqUpTo(Blocks, MinOf(MaxClientRows, MaxBlocks)),
        ls \in SeqUpTo(Links, MinOf(MaxClientRows + 1, MaxLinks))}
ClientUserPages ==
    {p \in UserPages : Len(p.table) <= MaxClientRows /\ p.script.key # "events"}

\* BokatAPI.list_activities of the library
LibListActivities ==
    /\ api = LibApi
    /\ pc = "idle"
    /\ \E home \in HomeAnswers, post \in LoginAnswers, got1, got2 \in BOOLEAN :
        LET l == lib_login(cookies, home, got1, post, got2)
        IN  IF ~l.ok
            THEN Ends("list_activities", <<>>, l.cookies, Return(<<>>), l.log)
            ELSE \E page \in ClientListingPages :
                    LET activities == lib_parse_activities(page)
                    IN  Ends("list_activities", <<>>, l.cookies,
                             Return(activities),
                             l.log \o <<SoupEv(page), ParsedEv(activities)>>)

\* BokatAPI.list_activities of the integration: lines 166-169 return [] after
\* parsing
OldListActivities ==
    /\ api = OldApi
    /\ pc = "idle"
    /\ \E home \in HomeAnswers, post \in LoginAnswers, got1, got2 \in BOOLEAN :
        LET l == lib_login(cookies, home, got1, post, got2)
        IN  IF ~l.ok
            THEN Ends("list_activities", <<>>, l.cookies, Return(<<>>), l.log)
            ELSE \E page \in ClientUserPages :
                    LET test == old_parse_activities(page)
                    IN  Ends("list_activities", <<>>, l.cookies, Return(<<>>),
                             l.log \o <<SoupEv(page), ParsedEv(test)>>)

----------------------------------------------------------------------------
(* BokatAPI.get_activity_info and reply_to_activity of the library *)

StatPrintUrl(event_id) == <<"https://www.bokat.se/", "statPrint.jsp?eventId=", event_id>>

ClientStatPages == {p \in StatPages : Len(p.rows) <= MaxClientRows}

\* lines 416-422
InfoError(status) ==
    [error |-> <<"Failed to get activity info:", status>>, attendees |-> 0,
     no_reply |-> 0, rejects |-> 0, participants |-> <<>>]

\* BokatAPI.get_activity_info: no try around the GET
LibGetActivityInfo ==
    /\ api = LibApi
    /\ pc = "idle"
    /\ \E event_id \in {"1"}, f \in {NoResp, Resp(500, {}), Resp(200, {})} :
        LET lg == <<GetEv(StatPrintUrl(event_id), f)>>
        IN  IF f.kind = "error"
            THEN Ends("get_activity_info", <<event_id>>, cookies,
                      Raise("ClientError"), lg)
            ELSE IF f.status # 200
            THEN Ends("get_activity_info", <<event_id>>, cookies,
                      Return(InfoError(f.status)), lg)
            ELSE \E page \in ClientStatPages :
                    Ends("get_activity_info", <<event_id>>, cookies,
                         Return(parse_activity_info(page)), Append(lg, ReadEv))

ReplyTypes == {"yes", "no", "comment_only", "maybe"}

\* lines 455-475: the form of a reply of a valid type
reply_data(reply_type, comment, guests) ==
    LET base == IF comment # "" THEN [comment |-> comment] ELSE <<>>
    IN  IF reply_type = "yes"
        THEN (IF guests > 0 THEN [nrOfGuests |-> Str(guests)] ELSE <<>>)
             @@ [accept |-> "Tacka Ja", currentStatus |-> "null"] @@ base
        ELSE IF reply_type = "no"
        THEN [decline |-> "Tacka Nej", currentStatus |-> "null", nrOfGuests |-> "0"]
             @@ base
        ELSE [onlyComment |-> "Endast kommentar"] @@ base

\* the answers to the POST of a reply with allow_redirects=True: the first
\* answer and, when that is a redirect, the answer at the end of the
\* redirects (else the first answer again)
ReplyAnswers ==
    {[first |-> a, final |-> a] :
        a \in {NoResp, Resp(200, {}), Resp(200, {"Sparat"}), Resp(500, {}),
               Resp(200, {"Logga in"})}}
    \cup {[first |-> a, final |-> b] :
            a \in {Resp(302, {}), Resp(303, {})},
            b \in {NoResp, Resp(200, {}), Resp(200, {"Sparat"}), Resp(404, {})}}

StatAnswerUrl(event_id, user_id) ==
    <<"https://www.bokat.se/", "statAnswer.jsp?userId=", user_id, "&eventId=", event_id>>

\* lines 489-502: what the final answer is taken to mean
reply_result(final) ==
    /\ final.kind = "resp"
    /\ final.status = 200
    /\ "Sparat" \in final.marks

\* BokatAPI.reply_to_activity
LibReplyToActivity ==
    /\ api = LibApi
    /\ pc = "idle"
    /\ \E reply_type \in ReplyTypes, comment \in Comments, guests \in 0..MaxGuests :
        LET args == <<"1", "7", reply_type, comment, guests>>
            url == StatAnswerUrl("1", "7")
        IN  IF reply_type \notin {"yes", "no", "comment_only"}
            THEN Ends("reply_to_activity", args, cookies, Return(FALSE), <<>>)
            ELSE \E a \in ReplyAnswers :
                LET data == reply_data(reply_type, comment, guests)
                    lg1 == <<PostEv(url, data, a.first)>>
                    lg2 == IF a.first # a.final
                           THEN Append(lg1, GetEv("Location", a.final)) ELSE lg1
                    lg3 == IF a.final.kind = "resp" THEN Append(lg2, ReadEv)
                           ELSE lg2
                IN  Ends("reply_to_activity", args, cookies,
                         Return(reply_result(a.final)), lg3)

----------------------------------------------------------------------------
(* The callers *)

\* BokatApiClient.login called on its own
Login ==
    /\ api = HaClient
    /\ pc = "idle"
    /\ \E s \in LoginScripts :
        LET r == login(cookies, s)
        IN  Ends("login", <<>>, r.cookies,
                 IF r.exc # "none" THEN Raise(r.exc) ELSE Return(r.ok),
                 r.trace)

\* what the host got from the coordinator's last refresh: nothing yet, the
\* data, or UpdateFailed with the exception it was made from
NoOutcome == [kind |-> "none", cause |-> "none"]
Data == [kind |-> "data", cause |-> "none"]
UpdateFailed(err) == [kind |-> "UpdateFailed", cause |-> err]

\* the coordinator's activity_url: None or a url
NoUrl == [set |-> FALSE, url |-> <<>>]
Url(u) == [set |-> TRUE, url |-> u]

\* _async_update_data begins: it awaits client.get_activities()
RefreshStart ==
    /\ api = HaClient
    /\ pc = "idle"
    /\ coord.mode = "idle"
    /\ coord' = [coord EXCEPT !.mode = "listing", !.host = NoOutcome]
    /\ UNCHANGED <<api, pc, cookies, call, ret, log>>

\* what the get_activities call of this refresh did, kept while the refresh
\* goes on: "fresh" when it logged in successfully and no page it fetched
\* showed a login marker, else "other"
Listed(lg) ==
    IF /\ \E i \in DOMAIN lg : lg[i].ev = "login" /\ lg[i].ok
       /\ \A i \in DOMAIN lg :
            lg[i].ev = "get" =>
                ~(lg[i].answer.kind = "resp" /\ lg[i].answer.status = 200
                  /\ HasLoginMarker(lg[i].answer))
    THEN "fresh" ELSE "other"

\* _async_update_data goes on with the outcome of the call it awaited:
\* lines 1323-1341
RefreshTake ==
    /\ pc = "done"
    /\ coord.mode \in {"listing", "details"}
    /\ pc' = "idle"
    /\ call' = [op |-> "none", args |-> <<>>]
    /\ ret' = Return(<<>>)
    /\ log' = <<>>
    /\ UNCHANGED <<api, cookies>>
    /\ IF ret.kind = "raise"
       THEN coord' = [coord EXCEPT !.mode = "idle", !.host = UpdateFailed(ret.value),
                                   !.listed = "none"]
       ELSE IF coord.mode = "listing"
       THEN LET url == IF ~coord.activity_url.set /\ ret.value # <<>>
                       THEN Url(ret.value[1].url) ELSE coord.activity_url
            IN  IF url.set
                THEN coord' = [coord EXCEPT !.mode = "details", !.activity_url = url,
                                            !.listed = Listed(log)]
                ELSE coord' = [coord EXCEPT !.mode = "idle", !.host = Data]
       ELSE coord' = [coord EXCEPT !.mode = "idle", !.host = Data, !.listed = "none"]

\* the entity of the coordinator (set by the sensor), and the entity_id a
\* service call may name
EntityId == "sensor.bokat"
EntityIds == {EntityId, "sensor.other"}

\* lines 194-209: handle_respond looks for the coordinator of the entity and
\* awaits its client's submit_response; with no such coordinator it ends
\* (one service call is followed from the client's state before it)
HandleRespond ==
    /\ api = HaClient
    /\ pc = "idle"
    /\ coord.mode = "idle"
    /\ coord.service = NoService
    /\ \E entity \in EntityIds :
        IF entity = EntityId
        THEN coord' = [coord EXCEPT !.mode = "responding",
                           !.service = Service(entity, 1, 0, "submit_response", "none")]
        ELSE coord' = [coord EXCEPT !.service = Service(entity, 0, 0, "ended", "none")]
    /\ UNCHANGED <<api, pc, cookies, call, ret, log>>

\* a handler that refreshes only after a successful submission
refreshes_after_success(r) == r = Return(TRUE)

\* line 210 is reached when submit_response returned, whatever it returned
refreshes_after(r) == r.kind = "return"

\* lines 204-210: submit_response has ended: its exception ends the
\* handler, else the handler awaits coord.async_refresh()
RespondTake ==
    /\ pc = "done"
    /\ coord.mode = "responding"
    /\ pc' = "idle"
    /\ call' = [op |-> "none", args |-> <<>>]
    /\ ret' = Return(<<>>)
    /\ log' = <<>>
    /\ UNCHANGED <<api, cookies>>
    /\ LET submitted == IF ret.kind = "raise" THEN "raised"
                        ELSE IF ret.value THEN "True" ELSE "False"
       IN  IF refreshes_after(ret)
           THEN coord' = [coord EXCEPT !.mode = "refreshing",
                    !.service = Service(@.entity, @.submits, @.refreshes + 1,
                                        "async_refresh", submitted)]
           ELSE coord' = [coord EXCEPT !.mode = "idle",
                    !.service = Service(@.entity, @.submits, @.refreshes,
                                        "ended", submitted)]

\* lines 210-211: async_refresh has run _async_update_data and kept its
\* outcome; the handler ends
RefreshEnds ==
    /\ coord.mode = "refreshing"
    /\ \E outcome \in {Data, UpdateFailed("ConfigEntryAuthFailed")},
          c \in {cookies, "empty", "set"} :
        /\ coord' = [coord EXCEPT !.mode = "idle", !.host = outcome,
                         !.service = [@ EXCEPT !.at = "ended"]]
        /\ cookies' = c
    /\ UNCHANGED <<api, pc, call, ret, log>>

\* the caller takes the outcome; the client is ready for the next call
NextCall ==
    /\ pc = "done"
    /\ pc' = "idle"
    /\ call' = [op |-> "none", args |-> <<>>]
    /\ ret' = Return(<<>>)
    /\ log' = <<>>
    /\ UNCHANGED <<api, cookies, coord>>

Init ==
    /\ api \in {HaClient, LibApi, OldApi}
    /\ pc = "idle"
    /\ cookies = "none"
    /\ call = [op |-> "none", args |-> <<>>]
    /\ ret = Return(<<>>)
    /\ log = <<>>
    /\ coord = [mode |-> "off", activity_url |-> NoUrl, host |-> NoOutcome, listed |-> "none",
               service |-> NoService]

\* the operations of the three clients
Next ==
    \/ Login
    \/ GetActivities
    \/ GetActivityDetails
    \/ SubmitResponse
    \/ LibListActivities
    \/ LibGetActivityInfo
    \/ LibReplyToActivity
    \/ OldListActivities
    \/ NextCall

Spec == Init /\ [][Next]_vars

\* the extraction functions, each applied to every page of its bounded set
NextExtract ==
    \/ ParseActivityDetails
    \/ ParseActivityDetailsWithSoup
    \/ ExtractDetails
    \/ ParseActivityInfo
    \/ LibParseActivities
    \/ OldParseActivities
    \/ NextCall

SpecExtract == Init /\ [][NextExtract]_vars

\* the library's listing extraction alone, applied to every listing page
NextListing ==
    \/ LibParseActivities
    \/ NextCall

SpecListing == Init /\ [][NextListing]_vars

\* the coordinator of the Home Assistant client, with or without a
\* configured activity url
InitCoord ==
    /\ api = HaClient
    /\ pc = "idle"
    /\ cookies = "none"
    /\ call = [op |-> "none", args |-> <<>>]
    /\ ret = Return(<<>>)
    /\ log = <<>>
    /\ \E url \in {NoUrl, Url(ActivityUrl(<<"eventId", "userId">>))} :
          coord = [mode |-> "idle", activity_url |-> url, host |-> NoOutcome,
                   listed |-> "none", service |-> NoService]

NextCoord ==
    \/ RefreshStart
    \/ GetActivities
    \/ GetActivityDetails
    \/ RefreshTake

SpecCoord == InitCoord /\ [][NextCoord]_vars

\* the respond service on a coordinator with an activity url, its client
\* with or without cookies of an earlier refresh
InitRespond ==
    /\ api = HaClient
    /\ pc = "idle"
    /\ cookies \in {"none", "set"}
    /\ call = [op |-> "none", args |-> <<>>]
    /\ ret = Return(<<>>)
    /\ log = <<>>
    /\ \E url \in ActivityUrls :
          coord = [mode |-> "idle", activity_url |-> Url(url), host |-> NoOutcome,
                   listed |-> "none", service |-> NoService]

NextRespond ==
    \/ HandleRespond
    \/ SubmitResponse
    \/ RespondTake
    \/ RefreshEnds

SpecRespond == InitRespond /\ [][NextRespond]_vars

----------------------------------------------------------------------------
(* How a login attempt decides from the answer to its credential POST *)

LoginUrl == "https://www.bokat.se/login.jsp"

\* the answers to the POST of _login_standard, redirects followed: the marks
\* say which of the texts the body holds
StandardAnswers ==
    {NoResp}
    \cup {Resp(s, m) : s \in {200, 500},
                       m \in SUBSET {"Logga ut", "Mina aktiviteter", "Logga in"}}

\* the answers to the GET of the main page
MainAnswers == Fetches \cup {Resp(200, {"Logga ut", "Mina aktiviteter"})}

\* lines 277-367: [ok, jar, exc, log] from the POST's answer, whether it
\* carries cookies (got), and the answers the two follow-up GETs would get
login_standard(post, got, check, main) ==
    LET jar == IF got THEN "set" ELSE "empty"
        sent == <<PostEv(LoginUrl, [username |-> "user", password |-> "secret",
                                    login |-> "Logga in"], post)>>
        checked == IF got THEN Append(sent, GetEv(MyActivitiesUrl, check)) ELSE sent
        verified == /\ got
                    /\ check.kind = "resp"
                    /\ check.status = 200
                    /\ ~HasLoginMarker(check)
    IN  IF post.kind = "error"
        THEN Outcome(FALSE, "keep") @@ [log |-> sent]
        ELSE IF post.marks \cap {"Logga ut", "Mina aktiviteter"} # {}
        THEN Outcome(TRUE, jar) @@ [log |-> sent]
        ELSE IF ~HasLoginMarker(post)
        THEN Outcome(TRUE, jar) @@ [log |-> sent]
        ELSE IF verified
        THEN Outcome(TRUE, jar) @@ [log |-> checked]
        ELSE Outcome(/\ main.kind = "resp"
                     /\ main.status = 200
                     /\ {"Logga ut", "Mina aktiviteter"} \subseteq main.marks,
                     jar)
             @@ [log |-> Append(checked, GetEv("https://www.bokat.se/", main))]

\* BokatApiClient._login_standard
LoginStandard ==
    /\ api = HaClient
    /\ pc = "idle"
    /\ \E post \in StandardAnswers, got \in BOOLEAN, check \in Fetches,
          main \in MainAnswers :
        LET r == login_standard(post, got, check, main)
        IN  Ends("_login_standard", <<>>, Jar(cookies, r), Return(r.ok), r.log)

\* BokatAPI._login (library): None on failure, the parsed page on success
LibLogin ==
    /\ api = LibApi
    /\ pc = "idle"
    /\ \E home \in HomeAnswers, post \in LoginAnswers, got1, got2 \in BOOLEAN :
        LET l == lib_login(cookies, home, got1, post, got2)
        IN  Ends("_login", <<>>, l.cookies, Return(l.ok), l.log)

\* the answers to the POST of validate_input: a transport error, no answer
\* within 30 s, or a response whose marks say whether the page has activity
\* rows (tr valign=top align=left class=Text) and whether it holds
\* "Felaktigt anvandarnamn eller losenord"
ConfigAnswers ==
    {NoResp, [kind |-> "timeout", status |-> 0, marks |-> {}]}
    \cup {Resp(s, m) : s \in {200, 401, 500}, m \in SUBSET {"rows", "Felaktigt"}}

\* isinstance(exc, cls) for the exceptions of the configuration flow:
\* CannotConnect and InvalidAuth derive from HomeAssistantError
IsInstance(exc, cls) ==
    \/ cls = exc
    \/ cls = "Exception"
    \/ cls = "HomeAssistantError" /\ exc \in {"CannotConnect", "InvalidAuth"}

\* config_flow.py lines 70-116: the body of the try block of validate_input
validate_input_try(answer) ==
    IF answer.kind = "error" THEN Raise("aiohttp.ClientError")
    ELSE IF answer.kind = "timeout" THEN Raise("asyncio.TimeoutError")
    ELSE IF answer.status # 200 THEN Raise("InvalidAuth")
    ELSE IF "rows" \notin answer.marks /\ "Felaktigt" \in answer.marks
    THEN Raise("InvalidAuth")
    ELSE Return("activities")

\* lines 117-122: the except clauses of validate_input, in order
validate_input(answer) ==
    LET r == validate_input_try(answer)
    IN  IF r.kind # "raise" THEN r
        ELSE IF IsInstance(r.value, "aiohttp.ClientError") THEN Raise("CannotConnect")
        ELSE IF IsInstance(r.value, "asyncio.TimeoutError") THEN Raise("CannotConnect")
        ELSE IF IsInstance(r.value, "Exception") THEN Raise("CannotConnect")
        ELSE r

\* lines 135-157: the user step goes on to the activity step, or shows the
\* form again with errors["base"]
async_step_user(answer) ==
    LET r == validate_input(answer)
    IN  IF r.kind # "raise" THEN [step |-> "activity", base |-> "none"]
        ELSE IF IsInstance(r.value, "CannotConnect")
        THEN [step |-> "user", base |-> "cannot_connect"]
        ELSE IF IsInstance(r.value, "InvalidAuth")
        THEN [step |-> "user", base |-> "invalid_auth"]
        ELSE [step |-> "user", base |-> "unknown"]

\* BokatSeConfigFlow.async_step_user with the credentials the user entered
AsyncStepUser ==
    /\ api = HaClient
    /\ pc = "idle"
    /\ \E answer \in ConfigAnswers :
        Ends("async_step_user", <<answer>>, cookies,
             Return(async_step_user(answer)), <<>>)

NextLogin ==
    \/ LoginStandard
    \/ LibLogin
    \/ AsyncStepUser
    \/ NextCall

SpecLogin == Init /\ [][NextLogin]_vars

----------------------------------------------------------------------------
(* Two operations on one BokatApiClient at a time: the scheduled
   _async_update_data and the respond service's submit_response, interleaved
   at their awaits. Here pc, call and ret are per task; log is the set of
   requests sent with cookies=self._cookies. *)

Tasks == {"refresh", "respond"}

\* the client operation each task runs first
TaskOp(t) == IF t = "refresh" THEN "get_activities" ELSE "submit_response"

\* the request sent with cookies=self._cookies: the n-th of task t's
\* operation; stale: another task has assigned self._cookies since the
\* operation began or last logged in
Request(t, n) == [task |-> t, n |-> n, stale |-> call[t].stale]

\* task t assigns self._cookies: the cookies every other running operation
\* relies on are replaced
Assigns(t) ==
    [u \in Tasks |->
        IF u = t THEN [call[u] EXCEPT !.stale = FALSE]
        ELSE IF pc[u] # "idle" THEN [call[u] EXCEPT !.stale = TRUE]
        ELSE call[u]]

\* lines 829-838, 1190-1230: the operation begins; without cookies it
\* awaits login(), else it sends its first request and awaits the answer
Begin(t) ==
    /\ pc[t] = "idle"
    /\ IF NoCookies(cookies)
       THEN /\ pc' = [pc EXCEPT ![t] = "login"]
            /\ log' = log
       ELSE /\ pc' = [pc EXCEPT ![t] = "wait1"]
            /\ log' = log \cup {[task |-> t, n |-> 1, stale |-> FALSE]}
    /\ call' = [call EXCEPT ![t] = [op |-> TaskOp(t), stale |-> FALSE]]
    /\ ret' = [ret EXCEPT ![t] = "running"]
    /\ UNCHANGED <<api, cookies, coord>>

\* line 293 and the like: the login response has come, self._cookies is
\* assigned; on success the operation sends its (first or repeated) request,
\* on failure it raises
LoginStore(t) ==
    /\ pc[t] \in {"login", "relogin"}
    /\ \E jar \in {"empty", "set"}, ok \in BOOLEAN :
        /\ cookies' = jar
        /\ call' = Assigns(t)
        /\ IF ok
           THEN /\ pc' = [pc EXCEPT ![t] = IF pc[t] = "login" THEN "wait1" ELSE "wait2"]
                /\ log' = log \cup {[task |-> t,
                                     n |-> IF pc[t] = "login" THEN 1 ELSE 2,
                                     stale |-> FALSE]}
                /\ ret' = ret
           ELSE /\ pc' = [pc EXCEPT ![t] = "idle"]
                /\ log' = log
                /\ ret' = [ret EXCEPT ![t] = "ConfigEntryAuthFailed"]
    /\ UNCHANGED <<api, coord>>

\* the operation's next request: the POST of submit_response (line 1269),
\* the GET of get_activity_details that _async_update_data goes on with
\* (line 1334)
SendsNext(t) ==
    /\ pc' = [pc EXCEPT ![t] = "wait3"]
    /\ log' = log \cup {Request(t, 3)}
    /\ ret' = ret

Fails(t) ==
    /\ pc' = [pc EXCEPT ![t] = "idle"]
    /\ log' = log
    /\ ret' = [ret EXCEPT ![t] = "failed"]

\* lines 839-847, 1232-1239: the answer to the first request: an error, a
\* login page (login() is awaited again), or the page
Answer1(t) ==
    /\ pc[t] = "wait1"
    /\ \E f \in Fetches :
        IF f.kind = "error" \/ f.status # 200 THEN Fails(t)
        ELSE IF HasLoginMarker(f)
        THEN /\ pc' = [pc EXCEPT ![t] = "relogin"]
             /\ log' = log
             /\ ret' = ret
        ELSE SendsNext(t)
    /\ UNCHANGED <<api, cookies, call, coord>>

\* lines 850-859, 1242-1251: the answer to the repeated request
Answer2(t) ==
    /\ pc[t] = "wait2"
    /\ \E f \in Fetches :
        IF f.kind = "error" \/ f.status # 200 THEN Fails(t) ELSE SendsNext(t)
    /\ UNCHANGED <<api, cookies, call, coord>>

\* the answer to the last request: the operation returns
Answer3(t) ==
    /\ pc[t] = "wait3"
    /\ pc' = [pc EXCEPT ![t] = "idle"]
    /\ ret' = [ret EXCEPT ![t] = "returned"]
    /\ UNCHANGED <<api, cookies, call, log, coord>>

InitConc ==
    /\ api = HaClient
    /\ pc = [t \in Tasks |-> "idle"]
    /\ cookies = "none"
    /\ call = [t \in Tasks |-> [op |-> "none", stale |-> FALSE]]
    /\ ret = [t \in Tasks |-> "none"]
    /\ log = {}
    /\ coord = [mode |-> "off", activity_url |-> NoUrl, host |-> NoOutcome, listed |-> "none",
               service |-> NoService]

NextConc ==
    \E t \in Tasks :
        \/ Begin(t)
        \/ LoginStore(t)
        \/ Answer1(t)
        \/ Answer2(t)
        \/ Answer3(t)

SpecConc == InitConc /\ [][NextConc]_vars

----------------------------------------------------------------------------
(* The network requests of each public operation and the timeout each one is
   issued under. Here log holds the operation's latest request. *)

\* a request at a line of the client's source, under a timeout in seconds;
\* 0: no async_timeout block around it and no timeout given to the session
Site(line, timeout) == [line |-> line, timeout |-> timeout]

\* login(): _login_standard, _login_alternative, _login_browser_simulation
\* under async_timeout.timeout(10); _login_direct_http on a bare
\* aiohttp.ClientSession(); _login_final_fallback on a session with
\* ClientTimeout(total=30)
LoginSites ==
    << Site(279, 10), Site(326, 10), Site(350, 10),
       Site(376, 10), Site(414, 10), Site(453, 10),
       Site(490, 10), Site(502, 10), Site(557, 10), Site(593, 10),
       Site(623, 0), Site(658, 0), Site(685, 0),
       Site(723, 30), Site(766, 30), Site(791, 30), Site(807, 30) >>

\* the requests of an operation in the order of the source; which of the
\* later ones follows an answer depends on the answer
Sites(a, op) ==
    IF a = HaClient THEN
        CASE op = "login" -> LoginSites
          [] op = "get_activities" -> LoginSites \o <<Site(835, 10), Site(850, 10)>>
          [] op = "get_activity_details" -> LoginSites \o <<Site(955, 10), Site(970, 10)>>
          [] op = "submit_response" ->
                LoginSites \o <<Site(1227, 10), Site(1242, 10), Site(1269, 10)>>
          [] OTHER -> <<>>
    ELSE IF a = LibApi THEN
        CASE op = "list_activities" -> <<Site(75, 0), Site(110, 0)>>
          [] op = "get_activity_info" -> <<Site(413, 0)>>
          [] op = "reply_to_activity" -> <<Site(482, 0)>>
          [] OTHER -> <<>>
    ELSE
        CASE op = "list_activities" -> <<Site(73, 0), Site(108, 0)>>
          [] OTHER -> <<>>

PublicOps ==
    {"login", "get_activities", "get_activity_details", "submit_response",
     "list_activities", "get_activity_info", "reply_to_activity"}

\* the position in Sites of the latest request, 0 before the first
Position == IF log = <<>> THEN 0 ELSE log[1].n

\* a public operation is called
Called ==
    /\ pc = "idle"
    /\ \E op \in PublicOps :
        /\ Sites(api, op) # <<>>
        /\ call' = [op |-> op, args |-> <<>>]
    /\ pc' = "running"
    /\ log' = <<>>
    /\ UNCHANGED <<api, cookies, ret, coord>>

\* the operation sends its next request and awaits the answer
Issues ==
    /\ pc = "running"
    /\ \E j \in DOMAIN Sites(api, call.op) :
        /\ j > Position
        /\ log' = <<[n |-> j, site |-> Sites(api, call.op)[j], state |-> "pending"]>>
    /\ pc' = "waiting"
    /\ UNCHANGED <<api, cookies, call, ret, coord>>

\* the server answers the pending request
Answered ==
    /\ pc = "waiting"
    /\ log' = <<[log[1] EXCEPT !.state = "answered"]>>
    /\ pc' = "running"
    /\ UNCHANGED <<api, cookies, call, ret, coord>>

\* the timeout the request was issued under expires: asyncio.TimeoutError is
\* raised in the operation
TimedOut ==
    /\ pc = "waiting"
    /\ log[1].site.timeout > 0
    /\ log' = <<[log[1] EXCEPT !.state = "timed out"]>>
    /\ pc' = "running"
    /\ UNCHANGED <<api, cookies, call, ret, coord>>

\* the operation returns a result or an error to its caller
Returns ==
    /\ pc = "running"
    /\ log # <<>>
    /\ pc' = "idle"
    /\ call' = [op |-> "none", args |-> <<>>]
    /\ log' = <<>>
    /\ UNCHANGED <<api, cookies, ret, coord>>

NextRequests ==
    \/ Called
    \/ Issues
    \/ Answered
    \/ TimedOut
    \/ Returns

\* the server may never answer; a timeout that was set expires
SpecRequests ==
    /\ Init
    /\ [][NextRequests]_vars
    /\ WF_vars(TimedOut)
    /\ WF_vars(Issues \/ Returns)

----------------------------------------------------------------------------
(* Claims *)

\* the number of participants of a roster with one of the given statuses
CountStatus(participants, statuses) ==
    Cardinality({i \in 1..Len(participants) : participants[i].status \in statuses})

\* the call that has just ended returned an activity detail of the Home
\* Assistant client (not the empty dict of a failed fetch)
ReturnedDetails ==
    /\ api = HaClient
    /\ pc = "done"
    /\ call.op \in {"_parse_activity_details", "_parse_activity_details_with_soup",
                    "get_activity_details"}
    /\ ret.kind = "return"
    /\ ret.value # <<>>

\* the call that has just ended returned an activity detail of the library
ReturnedInfo ==
    /\ api = LibApi
    /\ pc = "done"
    /\ call.op \in {"_parse_activity_info", "get_activity_info"}
    /\ ret.kind = "return"

\* C1: in every activity detail an extraction path returns, the attending,
\* not-attending and no-response counts add up to the number of participants
\* of the returned roster.
C1_CountsReconcile ==
    /\ ReturnedDetails =>
          ret.value.attending_count + ret.value.not_attending_count
            + ret.value.no_response_count = Len(ret.value.participants)
    /\ ReturnedInfo =>
          ret.value.attendees + ret.value.rejects + ret.value.no_reply
            = Len(ret.value.participants)

\* C2: every count of a returned activity detail is the number of returned
\* participants with that status (comment-only replies count as not
\* attending), never a number read from the page's summary line.
C2_CountsFromParticipants ==
    /\ ReturnedDetails =>
          /\ ret.value.attending_count
                = CountStatus(ret.value.participants, {"yes"})
          /\ ret.value.not_attending_count
                = CountStatus(ret.value.participants, {"no", "comment_only"})
          /\ ret.value.no_response_count
                = CountStatus(ret.value.participants, {"no_response"})
    /\ ReturnedInfo =>
          /\ ret.value.attendees
                = CountStatus(ret.value.participants, {"Attending"})
          /\ ret.value.rejects
                = CountStatus(ret.value.participants, {"NotAttending"})
          /\ ret.value.no_reply
                = CountStatus(ret.value.participants, {"NoReply"})

\* the listing page just parsed has as many links as blocks, and every
\* block has its group label
WellFormedListing(page) ==
    /\ Len(page.blocks) = Len(page.links)
    /\ \A i \in 1..Len(page.blocks) : page.blocks[i].group # "none"

\* C3: from a listing page of N blocks and N links in matching order,
\* _parse_activities returns N activities, the i-th with the i-th block's
\* name and group and the i-th link's eventId and userId, also when two
\* blocks of different groups have the same name.
C3_ListingPaired ==
    (api = LibApi /\ pc = "done" /\ call.op = "_parse_activities"
        /\ WellFormedListing(call.args[1])) =>
        LET page == call.args[1]
        IN  /\ Len(ret.value) = Len(page.blocks)
            /\ \A i \in 1..Len(ret.value) :
                  /\ ret.value[i].name = page.blocks[i].name
                  /\ ret.value[i].group = page.blocks[i].group
                  /\ ret.value[i].eventId = page.links[i].eventId
                  /\ ret.value[i].userId = page.links[i].userId

\* C4: when its login succeeds, list_activities returns exactly what
\* _parse_activities yields from the authenticated page (so a non-empty list
\* whenever the extraction finds an activity).
C4_ListReturnsExtraction ==
    (pc = "done" /\ call.op = "list_activities") =>
        \A i \in DOMAIN log :
            log[i].ev = "parsed" => ret = Return(log[i].value)

\* the login POST was answered 200 with the login form and no authenticated
\* heading
LoginRefused ==
    \E i \in DOMAIN log :
        /\ log[i].ev = "post"
        /\ log[i].url = UserPageUrl
        /\ log[i].answer.kind = "resp"
        /\ log[i].answer.status = 200
        /\ "form" \in log[i].answer.marks
        /\ "Anvandarsida" \notin log[i].answer.marks

\* the call's initial login() answered False
InitialLoginFailed ==
    /\ log # <<>>
    /\ log[1].ev = "login"
    /\ ~log[1].ok

\* C5: a listing call whose login is refused (POST answered 200 with the
\* login form still shown) ends with an authentication error, never with a
\* returned (empty) activity list.
C5_FailedLoginRaises ==
    (pc = "done" /\ call.op \in {"list_activities", "get_activities"}
        /\ (LoginRefused \/ InitialLoginFailed)) =>
        ret.kind = "raise"

\* the three operations of BokatApiClient that fetch a protected page
FetchOps == {"get_activities", "get_activity_details", "submit_response"}

LoginMarkers == {"Logga in", "login.jsp"}

\* a fetched page (status 200) whose body holds a login marker
MarkerPage(a) ==
    a.kind = "resp" /\ a.status = 200 /\ a.marks \cap LoginMarkers # {}

\* position of the first GET of the call (0: it made none)
FirstGet(lg) ==
    LET S == {i \in DOMAIN lg : lg[i].ev = "get"}
    IN  IF S = {} THEN 0 ELSE Min(S)

\* login() calls, and GETs of url, after position i
ReauthsAfter(lg, i) ==
    Cardinality({j \in (i + 1)..Len(lg) : lg[j].ev = "login"})
GetsAfter(lg, i, url) ==
    Cardinality({j \in (i + 1)..Len(lg) : lg[j].ev = "get" /\ lg[j].url = url})

\* C6 as stated: a fetched page with a login marker is followed by exactly
\* one re-authentication and then exactly one re-fetch of the same URL, and
\* no call re-authenticates more than once after its initial login.
C6_ReauthThenRefetch ==
    (api = HaClient /\ pc = "done" /\ call.op \in FetchOps /\ FirstGet(log) # 0) =>
        LET i == FirstGet(log)
        IN  /\ ReauthsAfter(log, i) <= 1
            /\ MarkerPage(log[i].answer) =>
                  /\ ReauthsAfter(log, i) = 1
                  /\ log[i + 1].ev = "login"
                  /\ GetsAfter(log, i, log[i].url) = 1
                  /\ Len(log) >= i + 2
                  /\ log[i + 2].ev = "get"

\* C6 (amended): a fetched page with a login marker is followed by exactly one
\* re-authentication; when that succeeds it is followed by exactly one
\* re-fetch of the same URL, and when it does not there is no re-fetch: the
\* call raises ConfigEntryAuthFailed when login() returned False, raises
\* login()'s exception when login() raised, and ends on the timeout when that
\* cut login() short; a page without a marker causes no re-authentication,
\* and no call re-authenticates more than once after its initial login,
\* whatever the re-fetched page contains.
C6_ReauthAtMostOnce ==
    (api = HaClient /\ pc = "done" /\ call.op \in FetchOps /\ FirstGet(log) # 0) =>
        LET i == FirstGet(log)
        IN  /\ ReauthsAfter(log, i) <= 1
            /\ \A j \in 1..(i - 1) : log[j].ev = "login" => j = 1
            /\ ~MarkerPage(log[i].answer) => ReauthsAfter(log, i) = 0
            /\ MarkerPage(log[i].answer) =>
                  /\ ReauthsAfter(log, i) = 1
                  /\ log[i + 1].ev = "login"
                  /\ IF log[i + 1].ok
                     THEN /\ GetsAfter(log, i, log[i].url) = 1
                          /\ log[i + 2].ev = "get"
                          /\ log[i + 2].url = log[i].url
                     ELSE /\ GetsAfter(log, i, log[i].url) = 0
                          /\ Len(log) = i + 1
                          /\ \/ log[i + 1].cut
                             \/ /\ log[i + 1].exc = "none"
                                /\ ret = Raise("ConfigEntryAuthFailed")
                             \/ /\ log[i + 1].exc # "none"
                                /\ ret = Raise(log[i + 1].exc)

\* a call whose first page and whose re-fetched page both hold a login marker
C6_Witness ==
    /\ api = HaClient
    /\ pc = "done"
    /\ call.op \in FetchOps
    /\ FirstGet(log) # 0
    /\ LET i == FirstGet(log)
       IN  /\ MarkerPage(log[i].answer)
           /\ Len(log) >= i + 2
           /\ log[i + 1].ev = "login"
           /\ log[i + 1].ok
           /\ log[i + 2].ev = "get"
           /\ MarkerPage(log[i + 2].answer)

\* the operations that submit a reply
ReplyOps == {"submit_response", "reply_to_activity"}

SuccessPhrases == {"Tack for ditt svar", "Thank you for your response", "Sparat"}

\* the POSTs of the call
Posts(lg) == {i \in DOMAIN lg : lg[i].ev = "post"}

\* the answer the call ended on: that of its last request
LastAnswer(lg) ==
    LET S == {i \in DOMAIN lg : lg[i].ev \in {"get", "post"}}
    IN  lg[CHOOSE i \in S : \A j \in S : j <= i].answer

IsRedirect(a) == a.kind = "resp" /\ a.status \in 300..399

\* C7: a reply whose response is 200 with neither a success phrase nor a
\* login marker returns False, and a reply returns True only when its POST was
\* answered with a redirect or the response body holds a success phrase.
C7_TrueOnlyOnPositiveSignal ==
    (pc = "done" /\ call.op \in ReplyOps) =>
        /\ ret = Return(TRUE) =>
              /\ Posts(log) # {}
              /\ \/ \E i \in Posts(log) : IsRedirect(log[i].answer)
                 \/ LastAnswer(log).marks \cap SuccessPhrases # {}
        /\ (/\ Posts(log) # {}
            /\ LastAnswer(log).kind = "resp"
            /\ LastAnswer(log).status = 200
            /\ LastAnswer(log).marks \cap (SuccessPhrases \cup LoginMarkers) = {})
              => ret = Return(FALSE)

\* a reply of BokatApiClient answered 200 with an empty page
C7_Witness ==
    /\ api = HaClient
    /\ pc = "done"
    /\ call.op = "submit_response"
    /\ Posts(log) # {}
    /\ LastAnswer(log) = Resp(200, {})
    /\ ret = Return(FALSE)

\* C8: a reply whose POST is answered with a redirect status returns True,
\* and the response body is not read.
C8_RedirectIsSuccess ==
    (pc = "done" /\ call.op \in ReplyOps) =>
        \A i \in Posts(log) :
            IsRedirect(log[i].answer) =>
                /\ ret = Return(TRUE)
                /\ \A j \in (i + 1)..Len(log) : log[j].ev # "read"

\* the attendance and the guests the reply was called with, and the name of
\* the guest-count field of the client's form
ReplyAttendance == IF api = HaClient THEN call.args[2] ELSE call.args[3]
ReplyGuests == IF api = HaClient THEN call.args[3] ELSE call.args[5]
GuestField == IF api = HaClient THEN "guests" ELSE "nrOfGuests"

\* C9: whatever guests value the caller gives, a reply with attendance "no"
\* is posted with the guest-count field "0".
C9_NoMeansZeroGuests ==
    (pc = "done" /\ call.op \in ReplyOps /\ ReplyAttendance = "no") =>
        \A i \in Posts(log) :
            /\ GuestField \in DOMAIN log[i].data
            /\ log[i].data[GuestField] = "0"

\* a "no" with the most guests, posted by BokatApiClient
C9_Witness ==
    /\ api = HaClient
    /\ pc = "done"
    /\ call.op = "submit_response"
    /\ call.args[2] = "no"
    /\ call.args[3] = MaxGuests
    /\ Posts(log) # {}

\* C10: a reply with attendance "yes" has a guest-count field in its POST
\* body if and only if guests > 0.
C10_GuestFieldIffGuests ==
    (pc = "done" /\ call.op \in ReplyOps /\ ReplyAttendance = "yes") =>
        \A i \in Posts(log) :
            (GuestField \in DOMAIN log[i].data) <=> (ReplyGuests > 0)

\* the fields of a reply form that set the attendance or the guest count
AttendanceFields == {"accept", "decline", "attendance", "guests", "nrOfGuests"}

\* C11: a reply with attendance "comment_only" posts the comment-only marker
\* field and no field that sets attendance or guest count.
C11_CommentOnlyLeavesAttendance ==
    (pc = "done" /\ call.op \in ReplyOps /\ ReplyAttendance = "comment_only") =>
        \A i \in Posts(log) :
            /\ "onlyComment" \in DOMAIN log[i].data
            /\ DOMAIN log[i].data \cap AttendanceFields = {}

\* C12: every hidden input of the fetched reply form, with its value (an
\* empty one too), is in the POST body of the reply.
C12_HiddenInputsPosted ==
    (pc = "done" /\ call.op \in ReplyOps) =>
        \A f \in DOMAIN log, i \in Posts(log) :
            log[f].ev = "form" =>
                \A k \in DOMAIN log[f].hidden :
                    /\ log[f].hidden[k].name \in DOMAIN log[i].data
                    /\ log[i].data[log[f].hidden[k].name] = log[f].hidden[k].value

\* C13: no exception escapes login(): whatever the server does, the call
\* returns a value (False on failure).
C13_LoginNeverRaises ==
    (pc = "done" /\ call.op = "login") => ret.kind = "return"

\* C14: an authentication failure during a coordinator refresh reaches the
\* host as an authentication failure, not as a generic update failure.
C14_AuthFailureReachesHost ==
    coord.host.cause = "ConfigEntryAuthFailed" =>
        coord.host.kind = "ConfigEntryAuthFailed"

\* C15: a timeout or transport error during get_activities or
\* get_activity_details makes the call fail with an error (it does not
\* return [] or {}), and the failed request is the call's last one.
C15_TransportErrorRaises ==
    (api = HaClient /\ pc = "done"
        /\ call.op \in {"get_activities", "get_activity_details"}) =>
        \A i \in DOMAIN log :
            (log[i].ev = "get" /\ log[i].answer.kind = "error") =>
                /\ ret.kind = "raise"
                /\ i = Len(log)

\* C16: get_activity_details / get_activity_info returns a detail parsed
\* from a real detail page or fails: it never returns an empty record, an
\* error record, or a record parsed from a page showing a login marker.
C16_DetailOrError ==
    (pc = "done" /\ call.op \in {"get_activity_details", "get_activity_info"}
        /\ ret.kind = "return") =>
        /\ ret.value # <<>>
        /\ "error" \notin DOMAIN ret.value
        /\ LastAnswer(log).kind = "resp"
        /\ LastAnswer(log).status = 200
        /\ LastAnswer(log).marks \cap LoginMarkers = {}

\* C17: operations running concurrently on one client are serialized: no
\* request of an operation is sent with cookies that another operation's
\* login assigned after the operation began.
C17_OperationsSerialized ==
    \A r \in log : ~r.stale

\* C18: every public operation eventually returns even if the server never
\* answers: each network request it awaits is under an explicit timeout.
C18_EveryRequestTimed ==
    pc = "waiting" => log[1].site.timeout > 0

\* the call that has just ended is a roster extraction of the Home Assistant
\* client, applied to the page call.args[1], and returned a detail
ExtractedDetails ==
    /\ ReturnedDetails
    /\ call.op \in {"_parse_activity_details", "_parse_activity_details_with_soup"}

\* the call that has just ended is the library's roster extraction
ExtractedInfo ==
    /\ ReturnedInfo
    /\ call.op = "_parse_activity_info"

\* the markers of a roster row of the page: its status cell says
\* 'Kommer inte', or 'Kommer' without 'inte'
NotAttendingRow(r) == Contains(r[2].text, <<"Kommer", "inte">>)
AttendingRow(r) == Contains(r[2].text, <<"Kommer">>) /\ ~NotAttendingRow(r)
HeaderRow(r) ==
    Lower(r[1].text) \in {<<"namn">>, <<"name">>} \/ Lower(r[2].text) = <<"status">>

\* the returned participants that come from a row of the page satisfying Is
FromRows(Is(_)) ==
    {i \in DOMAIN ret.value.participants :
        \E k \in DOMAIN call.args[1].rows :
            /\ call.args[1].rows[k][1].text = ret.value.participants[i].name
            /\ Is(call.args[1].rows[k])}

\* C19: a roster row with the not-attending marker ('Kommer inte', 'Nej!')
\* is classified not attending and counted so, never attending; a row with
\* the attending marker is attending; a row with neither is no response.
C19_MarkerDecidesStatus ==
    /\ ExtractedDetails =>
        LET ps == ret.value.participants
            Plain(r) == /\ ~NotAttendingRow(r) /\ ~AttendingRow(r) /\ ~HeaderRow(r)
                        /\ r[3].text = <<>>
                        /\ ~Contains(r[2].text, <<"Endast", "kommentar">>)
        IN  /\ \A i \in FromRows(NotAttendingRow) : ps[i].status = "no"
            /\ \A i \in FromRows(AttendingRow) : ps[i].status = "yes"
            /\ \A i \in FromRows(Plain) : ps[i].status = "no_response"
            /\ ret.value.not_attending_count >= Cardinality(FromRows(NotAttendingRow))
            /\ ret.value.attending_count = Cardinality(FromRows(AttendingRow))
    /\ ExtractedInfo =>
        \A i \in DOMAIN ret.value.participants, k \in DOMAIN call.args[1].rows :
            (/\ call.args[1].rows[k].td
             /\ call.args[1].rows[k].name = ret.value.participants[i].name) =>
                ret.value.participants[i].status =
                    CASE call.args[1].rows[k].marker = "Nej" -> "NotAttending"
                      [] call.args[1].rows[k].marker = "Ja" -> "Attending"
                      [] OTHER -> ret.value.participants[i].status

\* a roster row with a comment and neither marker
CommentedRow(r) ==
    /\ ~Contains(r[2].text, <<"Kommer">>)
    /\ ~HeaderRow(r)
    /\ r[3].text # <<>>

\* C20: a roster row with a non-empty comment and no attending or
\* not-attending marker is classified comment_only and counted in the
\* not-attending count, never as no response.
C20_CommentOnlyRow ==
    /\ ExtractedDetails =>
        /\ \A i \in FromRows(CommentedRow) :
                ret.value.participants[i].status = "comment_only"
        /\ ret.value.not_attending_count >= Cardinality(FromRows(CommentedRow))
    /\ ExtractedInfo =>
        \A i \in DOMAIN ret.value.participants, k \in DOMAIN call.args[1].rows :
            (/\ call.args[1].rows[k].td
             /\ call.args[1].rows[k].name = ret.value.participants[i].name
             /\ call.args[1].rows[k].marker = "none"
             /\ call.args[1].rows[k].comment \notin {<<>>, <<"&nbsp;">>}) =>
                ret.value.participants[i].status \notin {"NoReply", "Attending", "NotAttending"}

\* C21: when the number of "Aktivitet:" labels and the number of stat.jsp
\* links of a listing page differ, _parse_activities returns exactly
\* min(labels, links) activities, each with the name of a label and the
\* ids of a link of the page.
C21_UnmatchedDropped ==
    (api = LibApi /\ pc = "done" /\ call.op = "_parse_activities"
        /\ Len(call.args[1].blocks) # Len(call.args[1].links)) =>
        LET page == call.args[1]
        IN  /\ Len(ret.value) = MinOf(Len(page.blocks), Len(page.links))
            /\ \A i \in 1..Len(ret.value) :
                  /\ \E b \in DOMAIN page.blocks : ret.value[i].name = page.blocks[b].name
                  /\ \E l \in DOMAIN page.links :
                        /\ ret.value[i].url = StatUrl(page.links[l])
                        /\ ret.value[i].eventId = page.links[l].eventId

\* the row of the page that is the label of the activity called name: the
\* first "Aktivitet:" row with that value
LabelOf(rows, name) ==
    CHOOSE r \in DOMAIN rows :
        /\ rows[r].label = "Aktivitet:" /\ rows[r].value = name
        /\ \A q \in 1..(r - 1) : ~(rows[q].label = "Aktivitet:" /\ rows[q].value = name)

\* the value of the nearest "Grupp:" row before row r, or the placeholder
GroupBefore(rows, r) ==
    LET G == {j \in 1..(r - 1) : rows[j].label = "Grupp:"}
    IN  IF G = {} THEN "Unknown Group"
        ELSE rows[CHOOSE j \in G : \A k \in G : k <= j].value

\* C22: each returned activity's group is the value of the nearest group
\* label before the activity's label in document order (several activities
\* may follow one group label); with no group label before it, the group
\* is the placeholder "Unknown Group".
C22_NearestPrecedingGroup ==
    (api = LibApi /\ pc = "done" /\ call.op = "_parse_activities") =>
        \A i \in DOMAIN ret.value :
            ret.value[i].group =
                GroupBefore(call.args[1].rows, LabelOf(call.args[1].rows, ret.value[i].name))

\* two activities returned under the one group label of the page
C22_Witness ==
    /\ api = LibApi /\ pc = "done" /\ call.op = "_parse_activities"
    /\ Len(ret.value) = 2
    /\ Len(call.args[1].blocks) = 2
    /\ call.args[1].blocks[1].group = "G1"
    /\ call.args[1].blocks[2].group = "none"
    /\ ret.value[1].group = "G1"
    /\ ret.value[2].group = "G1"

\* the extraction strategies of the integration's _parse_activities, in the
\* order they are tried, each applied to the page on its own
StrategyOutputs(page) ==
    << userpage_format(page),
       IF page.has_content THEN link_activities(page.links, "content") ELSE <<>>,
       link_activities(page.links, "table"),
       link_activities(page.links, "all"),
       link_activities(page.items, "all"),
       script_activities(page.script.entries) >>

\* C23: the list _parse_activities returns is exactly the output of the
\* first strategy that produced a non-empty result (empty when none did);
\* no later strategy, the inline-script JSON scan included, adds to it.
C23_FirstNonEmptyStrategy ==
    (api = OldApi /\ pc = "done" /\ call.op = "_parse_activities") =>
        LET outs == StrategyOutputs(call.args[1])
            hit == {i \in DOMAIN outs : outs[i] # <<>>}
        IN  IF hit = {} THEN ret = Return(<<>>)
            ELSE ret = Return(outs[CHOOSE i \in hit : \A j \in hit : i <= j])

\* C24: a login attempt never reports success when the answer to its
\* credential POST has a status other than 200.
C24_SuccessNeeds200 ==
    (pc = "done" /\ call.op \in {"_login_standard", "_login"} /\ ret = Return(TRUE)) =>
        \A i \in Posts(log) :
            log[i].answer.kind = "resp" /\ log[i].answer.status = 200

\* C25: after a login attempt that reports failure the client holds no
\* session cookies (so the next operation authenticates again): login()
\* returned False, or an operation gave up with ConfigEntryAuthFailed.
C25_FailedLoginLeavesNoCookies ==
    (/\ api = HaClient
     /\ pc = "done"
     /\ \/ call.op = "login" /\ ret = Return(FALSE)
        \/ ret = Raise("ConfigEntryAuthFailed")) =>
        NoCookies(cookies)

\* C26: after a successful login the session is reused: in a refresh whose
\* get_activities logged in successfully, with no fetched page showing a
\* login marker, get_activity_details performs no further login.
C26_SessionReused ==
    (/\ coord.mode = "details"
     /\ coord.listed = "fresh"
     /\ pc = "done"
     /\ call.op = "get_activity_details"
     /\ \A i \in DOMAIN log : log[i].ev = "get" => ~MarkerPage(log[i].answer)) =>
        \A i \in DOMAIN log : log[i].ev # "login"

\* C27: login() tries the five strategies in the order standard,
\* alternative, browser simulation, direct HTTP, final fallback; it returns
\* True as soon as one reports success, without trying a later one, and
\* returns False only after all five have reported failure.
C27_StrategiesInOrder ==
    (api = HaClient /\ pc = "done" /\ call.op = "login") =>
        /\ Len(log) \in 1..5
        /\ \A i \in DOMAIN log : log[i].name = StrategyNames[i]
        /\ \A i \in 1..(Len(log) - 1) : ~log[i].ok /\ log[i].exc = "none"
        /\ ret = Return(TRUE) => log[Len(log)].ok
        /\ ret = Return(FALSE) =>
              Len(log) = 5 /\ \A i \in DOMAIN log : ~log[i].ok /\ log[i].exc = "none"

\* login() returned True from the browser simulation after the standard and
\* the alternative method had failed, and tried nothing after it
C27_Witness ==
    /\ api = HaClient /\ pc = "done" /\ call.op = "login"
    /\ ret = Return(TRUE)
    /\ Len(log) = 3
    /\ log[3].name = "_login_browser_simulation"

\* a row a walk of the page's table finds as a roster row: three cells or
\* more, not the header
StructuralRow(r) == Len(r) >= 3 /\ ~HeaderRow(r)

\* C28: when the primary extraction yields no participants (the page not
\* being a login page), the structural extraction is run, and the detail
\* returned holds the roster rows it finds, rows with the attending marker
\* included, with their counts.
C28_FallbackFindsRoster ==
    (api = HaClient /\ pc = "done" /\ call.op = "extract_details"
        /\ parse_activity_details(call.args[1], "url").participants = <<>>) =>
        LET found == SelectSeq(call.args[1].rows, StructuralRow)
            ps == ret.value.participants
        IN  /\ Len(ps) = Len(found)
            /\ \A i \in DOMAIN ps : ps[i].name = found[i][1].text
            /\ ret.value.total_participants = Len(found)
            /\ ret.value.attending_count + ret.value.not_attending_count
                 + ret.value.no_response_count = Len(found)

\* C29: in the configuration flow, credentials the server rejects (a login
\* response other than 200, or the wrong-username-or-password message with
\* no activity rows) end the user step with 'invalid_auth'; transport
\* errors and timeouts end it with 'cannot_connect'.
C29_InvalidAuthOrCannotConnect ==
    (pc = "done" /\ call.op = "async_step_user") =>
        LET a == call.args[1]
        IN  /\ (a.kind = "resp"
                  /\ (a.status # 200
                        \/ ("Felaktigt" \in a.marks /\ "rows" \notin a.marks))) =>
                    ret.value = [step |-> "user", base |-> "invalid_auth"]
            /\ a.kind \in {"error", "timeout"} =>
                    ret.value = [step |-> "user", base |-> "cannot_connect"]

====
